---------------------------- MODULE Spec2Model ----------------------------
(***************************************************************************)
(* Verification model of the research-orchestration engine.               *)
(*                                                                         *)
(*  Part I   runWithConcurrency, the batch executor of                     *)
(*           src/src/ai/text-splitter.ts (SpecPool, SpecPoolFair).         *)
(*  Part II  generateSerpQueries / extractJsonFromText, the sub-query      *)
(*           generation step of src/unnamed/part_001 (SpecSerp).           *)
(*  Part III deepResearch, the recursion controller of                     *)
(*           src/unnamed/part_001 (SpecResearch, SpecResearchFair,         *)
(*           SpecResearchStall).                                           *)
(*  Part IV  research, writeFinalReport and the deepResearch.run handler   *)
(*           of src/src/mcp-server.ts (SpecTop).                           *)
(*  Part V   the two extractions: generateFeedback of src/src/logger.ts    *)
(*           and processGeminiResponse (SpecExtract).                      *)
(*  Part VI  the fingerprint caches: LRUCache objects with the capacities  *)
(*           of src/unnamed/part_001 and src/src/logger.ts (SpecCache).    *)
(*  Part VII the text splitters of src/src/ai/text-splitter.ts             *)
(*           (SpecSplit).                                                  *)
(*  Part VIII ProgressManager.updateProgress of src/unnamed/part_000       *)
(*           (SpecProgress).                                               *)
(*  Part IX  the grouping loop of SemanticTextSplitter.splitText           *)
(*           (SpecGroup, SpecGroupFair).                                   *)
(*                                                                         *)
(* Every part has its own variables; a specification of one part keeps    *)
(* the variables of the other parts at their idle values.                  *)
(***************************************************************************)
EXTENDS Integers, Sequences, FiniteSets, TLC

VARIABLES
  \* ---- Part I: one runWithConcurrency call -------------------------------
  items,      \* the items argument, a sequence (JS index i is items[i+1])
  limit,      \* the limit argument
  results,    \* const results = new Array<R>(items.length)
  inFlight,   \* let inFlight = 0
  index,      \* let index = 0
  promise,    \* state of the returned promise: pending / resolved / rejected
  wk,         \* per item: where its worker promise and its callbacks are
  completed,  \* history: JS indices in the order their workers settled
  poolPc,     \* "init" before the call, "called" after the first next()
  \* ---- Part II: generateSerpQueries --------------------------------------
  serpQueryCache, \* the LRU cache of sub-query lists, cache key -> list
  serpComputedFor, \* history: cache key -> the arguments its list was generated for
  serpArgs,       \* the arguments of the current generateSerpQueries call
  serpText,       \* the text the generation call answered with
  serpOut,        \* the list the call returned
  serpPc,         \* "idle" / "awaiting" the generation call / "returned"
  \* ---- Part III: deepResearch --------------------------------------------
  ConcurrencyLimit, \* const ConcurrencyLimit = CONCURRENCY_LIMIT
  tasks,            \* the live deepResearch invocations, by their path in
                    \* the recursion tree (<<>> is the call made by research;
                    \* Append(p, k) is the call made by worker k of task p)
  \* ---- Part IV: research() and the deepResearch.run handler -------------
  deepResearchCache, \* the LRU cache of the handler, cache key -> MCPResearchResult
  reportCache, \* the LRU cache of writeFinalReport, cache key -> report
  ceilingValid, \* whether CONCURRENCY_LIMIT parses to a number >= 1
  topCall, \* the arguments of the current top-level call
  topResult, \* what deepResearch / research settled with
  topParts, \* the outline, body, summary and title generated so far
  topSynth, \* the helper generation calls the current top-level call has made
  topOut, \* what the top-level caller received
  topPc, \* "idle" / "deepResearch" / "report", "handlerReport" (a helper generation
         \* call of research()'s / the handler's writeFinalReport is pending) / "settled"
  nCalls,\* top-level calls made so far
  \* ---- Part V: generateFeedback and processGeminiResponse ---------------
  feedbackCache, \* the LRU cache of generateFeedback (one key): <<>> or <<response>>
  fbFirst, \* jsonText, the answer to the first generation call of generateFeedback
  fbRepaired, \* jsonText after the repair pass
  fbRepairs, \* repair requests issued by the current generateFeedback call
  fbOut, \* what generateFeedback settled with
  fbPc, \* "idle" / "context" / "first" / "repair" / "settled"
  pgText, \* the geminiResponseText of the last processGeminiResponse call
  pgOut, \* what that call settled with
  nExtractions,\* extractions made so far
  \* ---- Part VI: one LRU cache -------------------------------------------
  lruName, \* which of the caches it is
  lruMax, \* the max option the cache was constructed with
  lruEntries, \* the entries <<key, value>>, least recently used first
  lruUsedAt, \* history: key -> number of the operation that last used it
  lruOp, \* the last operation, <<"set", key, value>> or <<"get", key>>
  lruPrev, \* the operation before it
  lruGot, \* what the last get returned (<<>>: undefined, else <<value>>)
  lruEvicted, \* the keys the last operation evicted
  nLruOps,\* number of operations so far
  \* ---- Part VII: one text splitter --------------------------------------
  spVariant, \* the class that was constructed
  spParams, \* its chunkSize, chunkOverlap and separators
  spState, \* "none" / "constructed" / "threw" (the constructor threw)
  spText, \* the text of the last splitText call
  spEmbed, \* how the embedding capability behaved in that call
  spVia, \* the caller: "splitText" directly, or "semanticChunking"
  spOut,\* what the caller received
  \* ---- Part VIII: one ProgressManager -----------------------------------
  initialized, \* this.initialized
  lastProgress, \* this.lastProgress (<<>>: undefined)
  rateWindow, \* this.rateWindow, samples [t, completed]
  etaStr, \* the ETA of the last redraw (<<>>: nothing drawn yet)
  clock, \* what Date.now() returned last
  redraws, \* history: number of redraws
  accepted, \* history: every sample pushed, in arrival order
  rateUsed, \* history: dCompleted and the time difference of the last rate computed
  pmCall, \* history: the snapshot of the last call
  pmBefore, \* history: lastProgress, rateWindow and redraws before the last call
  nUpdates,\* number of calls so far
  \* ---- Part IX: the grouping loop of SemanticTextSplitter.splitText -----
  grpN, \* sentences.length
  grpOverlap, \* this.chunkOverlap
  grpI, \* i, the index of the next sentence (from 0)
  grpStarts, \* start of every chunk pushed so far
  grpEnds, \* for every chunk pushed, the index of the first sentence it did not take
  grpPc \* "idle" / "loop" / "returned"

poolVars == <<items, limit, results, inFlight, index, promise, wk, completed, poolPc>>
serpVars == <<serpQueryCache, serpComputedFor, serpArgs, serpText, serpOut, serpPc>>

researchVars == <<ConcurrencyLimit, tasks>>
topVars == <<deepResearchCache, reportCache, ceilingValid, topCall, topResult, topParts, topSynth,
             topOut, topPc, nCalls>>
extractVars == <<feedbackCache, fbFirst, fbRepaired, fbRepairs, fbOut, fbPc, pgText, pgOut, nExtractions>>
cacheVars == <<lruName, lruMax, lruEntries, lruUsedAt, lruOp, lruPrev, lruGot, lruEvicted, nLruOps>>
splitVars == <<spVariant, spParams, spState, spText, spEmbed, spVia, spOut>>
progressVars == <<initialized, lastProgress, rateWindow, etaStr, clock, redraws, accepted, rateUsed, pmCall, pmBefore, nUpdates>>
groupVars == <<grpN, grpOverlap, grpI, grpStarts, grpEnds, grpPc>>
notPoolVars == <<serpVars, researchVars, topVars, extractVars, cacheVars, splitVars, progressVars, groupVars>>
notSerpVars == <<poolVars, researchVars, topVars, extractVars, cacheVars, splitVars, progressVars, groupVars>>
notResearchVars == <<poolVars, serpVars, topVars, extractVars, cacheVars, splitVars, progressVars, groupVars>>
notTopVars == <<poolVars, serpVars, researchVars, extractVars, cacheVars, splitVars, progressVars, groupVars>>
notExtractVars == <<poolVars, serpVars, researchVars, topVars, cacheVars, splitVars, progressVars, groupVars>>
notCacheVars == <<poolVars, serpVars, researchVars, topVars, extractVars, splitVars, progressVars, groupVars>>
notSplitVars == <<poolVars, serpVars, researchVars, topVars, extractVars, cacheVars, progressVars, groupVars>>
notProgressVars == <<poolVars, serpVars, researchVars, topVars, extractVars, cacheVars, splitVars, groupVars>>
notGroupVars == <<poolVars, serpVars, researchVars, topVars, extractVars, cacheVars, splitVars, progressVars>>

vars == <<poolVars, serpVars, researchVars, topVars, extractVars, cacheVars, splitVars, progressVars, groupVars>>

-----------------------------------------------------------------------------
(***************************************************************************)
(* Bounds of the model.                                                    *)
(***************************************************************************)
MaxItems == 4
MaxLimit == 3
MaxQueries == 2
MaxDepth == 2
MaxBreadth == 2
MaxCeiling == 2
MaxCalls == 2
MaxExtractions == 2

-----------------------------------------------------------------------------
(***************************************************************************)
(* Part I: runWithConcurrency                                              *)
(***************************************************************************)

\* `undefined`, the value of an item the loop skips, and an empty array slot.
Undefined == "undefined"
Hole == <<"hole">>

\* The items a caller can pass: defined values and undefined entries.
ItemValues == {"a", Undefined}

\* worker(item, idx): the value the worker's promise fulfils with.  The worker
\* is a parameter of runWithConcurrency; it is modelled as an injective
\* function of its two arguments, so that a result stored at a wrong slot or
\* computed from a wrong item is visible.
worker(item, idx) == <<item, idx>>

\* new Array<R>(items.length)
NewResults(n) == [i \in 1..n |-> Hole]

\* The guard of next()'s resolve branch: index >= items.length && inFlight === 0
ResolveGuardNoInFlight(idx, inf) == idx >= Len(items)
ResolveGuard(idx, inf) == idx >= Len(items) /\ inf = 0

\* The guard of next()'s while loop: inFlight < limit && index < items.length
LoopGuardOffByOne(inf, idx) == inf <= limit /\ idx < Len(items)
LoopGuard(inf, idx) == inf < limit /\ idx < Len(items)

\* The while loop of next(): takes the next index, skips an undefined item
\* (inFlight++ then inFlight--), starts the worker of a defined one.
WhileLoopOneStep(idx, inf, w) ==
  IF LoopGuard(inf, idx)
    THEN IF items[idx + 1] = Undefined
           THEN [index |-> idx + 1, inFlight |-> inf, wk |-> w]
           ELSE [index |-> idx + 1, inFlight |-> inf + 1, wk |-> [w EXCEPT ![idx + 1] = "running"]]
    ELSE [index |-> idx, inFlight |-> inf, wk |-> w]
RECURSIVE WhileLoop(_, _, _)
WhileLoop(idx, inf, w) ==
  IF LoopGuard(inf, idx)
    THEN IF items[idx + 1] = Undefined
           THEN WhileLoop(idx + 1, inf, w)
           ELSE WhileLoop(idx + 1, inf + 1, [w EXCEPT ![idx + 1] = "running"])
    ELSE [index |-> idx, inFlight |-> inf, wk |-> w]

\* resolve(results) / reject(err): a promise settles once, later calls are no-ops.
Resolve(p) == IF p = "pending" THEN "resolved" ELSE p
RejectIgnored(p) == p
Reject(p) == IF p = "pending" THEN "rejected" ELSE p

\* next(): resolve and return when nothing is left, else run the while loop.
\* The result is the new <<index, inFlight, wk, promise>> as a record.
next(idx, inf, w, p) ==
  IF ResolveGuard(idx, inf)
    THEN [index |-> idx, inFlight |-> inf, wk |-> w, promise |-> Resolve(p)]
    ELSE LET l == WhileLoop(idx, inf, w)
         IN  [index |-> l.index, inFlight |-> l.inFlight, wk |-> l.wk, promise |-> p]

\* .then((res) => { results[i] = res; })
StoreInCompletionOrder(res, i) ==
  LET free == {k \in 1..Len(res) : res[k] = Hole}
      k0 == CHOOSE k \in free : \A m \in free : k <= m
  IN  [res EXCEPT ![k0] = worker(items[i + 1], i)]
Store(res, i) == [res EXCEPT ![i + 1] = worker(items[i + 1], i)]

\* The parts of the model a specification does not exercise stay idle.
PoolIdle ==
  /\ items = <<>>
  /\ limit = 1
  /\ results = <<>>
  /\ inFlight = 0
  /\ index = 0
  /\ promise = "pending"
  /\ wk = <<>>
  /\ completed = <<>>
  /\ poolPc = "idle"

SerpIdle ==
  /\ serpQueryCache = <<>>
  /\ serpComputedFor = <<>>
  /\ serpArgs = <<>>
  /\ serpText = <<>>
  /\ serpOut = <<>>
  /\ serpPc = "idle"

ResearchIdle ==
  /\ ConcurrencyLimit = 1
  /\ tasks = <<>>

TopIdle ==
  /\ deepResearchCache = <<>>
  /\ reportCache = <<>>
  /\ ceilingValid = TRUE
  /\ topCall = <<>>
  /\ topResult = <<>>
  /\ topParts = <<>>
  /\ topSynth = 0
  /\ topOut = <<>>
  /\ topPc = "idle"
  /\ nCalls = 0

ExtractIdle ==
  /\ feedbackCache = <<>>
  /\ fbFirst = <<>>
  /\ fbRepaired = <<>>
  /\ fbRepairs = 0
  /\ fbOut = <<>>
  /\ fbPc = "idle"
  /\ pgText = <<>>
  /\ pgOut = <<>>
  /\ nExtractions = 0

CacheIdle ==
  /\ lruName = ""
  /\ lruMax = 0
  /\ lruEntries = <<>>
  /\ lruUsedAt = <<>>
  /\ lruOp = <<>>
  /\ lruPrev = <<>>
  /\ lruGot = <<>>
  /\ lruEvicted = {}
  /\ nLruOps = 0

SplitIdle ==
  /\ spVariant = ""
  /\ spParams = <<>>
  /\ spState = "none"
  /\ spText = <<>>
  /\ spEmbed = ""
  /\ spVia = ""
  /\ spOut = <<>>

ProgressIdle ==
  /\ initialized = FALSE
  /\ lastProgress = <<>>
  /\ rateWindow = <<>>
  /\ etaStr = <<>>
  /\ clock = 0
  /\ redraws = 0
  /\ accepted = <<>>
  /\ rateUsed = <<>>
  /\ pmCall = <<>>
  /\ pmBefore = <<>>
  /\ nUpdates = 0

GroupIdle ==
  /\ grpN = 0
  /\ grpOverlap = 0
  /\ grpI = 0
  /\ grpStarts = <<>>
  /\ grpEnds = <<>>
  /\ grpPc = "idle"

\* The state before the call, for every argument list within the bounds.
InitPool ==
  /\ SerpIdle
  /\ ResearchIdle
  /\ TopIdle
  /\ ExtractIdle
  /\ CacheIdle
  /\ SplitIdle
  /\ ProgressIdle
  /\ GroupIdle
  /\ items \in UNION {[1..n -> ItemValues] : n \in 0..MaxItems}
  /\ limit \in 1..MaxLimit
  /\ results = NewResults(Len(items))
  /\ inFlight = 0
  /\ index = 0
  /\ promise = "pending"
  /\ wk = [i \in 1..Len(items) |-> "idle"]
  /\ completed = <<>>
  /\ poolPc = "init"

\* runWithConcurrency(items, limit, worker): the promise executor calls next().
Call ==
  /\ poolPc = "init"
  /\ LET n == next(index, inFlight, wk, promise)
     IN  /\ index' = n.index
         /\ inFlight' = n.inFlight
         /\ wk' = n.wk
         /\ promise' = n.promise
  /\ poolPc' = "called"
  /\ UNCHANGED <<items, limit, results, completed, notPoolVars>>

\* The promise of worker(items[i], i) settles: it fulfils or it rejects.
WorkerSettles(i, ok) ==
  /\ wk[i + 1] = "running"
  /\ wk' = [wk EXCEPT ![i + 1] = IF ok THEN "fulfilled" ELSE "rejected"]
  /\ completed' = Append(completed, i)
  /\ UNCHANGED <<items, limit, results, inFlight, index, promise, poolPc, notPoolVars>>

\* .then((res) => { results[i] = res; })
Then(i) ==
  /\ wk[i + 1] = "fulfilled"
  /\ results' = Store(results, i)
  /\ wk' = [wk EXCEPT ![i + 1] = "finallyOk"]
  /\ UNCHANGED <<items, limit, inFlight, index, promise, completed, poolPc, notPoolVars>>

\* .catch(reject)
Catch(i) ==
  /\ wk[i + 1] = "rejected"
  /\ promise' = Reject(promise)
  /\ wk' = [wk EXCEPT ![i + 1] = "finallyErr"]
  /\ UNCHANGED <<items, limit, results, inFlight, index, completed, poolPc, notPoolVars>>

\* .finally(() => { inFlight--; next(); })
Finally(i) ==
  /\ wk[i + 1] \in {"finallyOk", "finallyErr"}
  /\ LET w1 == [wk EXCEPT ![i + 1] = IF wk[i + 1] = "finallyOk" THEN "doneOk" ELSE "doneErr"]
         n == next(index, inFlight - 1, w1, promise)
     IN  /\ index' = n.index
         /\ inFlight' = n.inFlight
         /\ wk' = n.wk
         /\ promise' = n.promise
  /\ UNCHANGED <<items, limit, results, completed, poolPc, notPoolVars>>

NextPool ==
  \/ Call
  \/ \E i \in 0..(Len(items) - 1) : \E ok \in BOOLEAN : WorkerSettles(i, ok)
  \/ \E i \in 0..(Len(items) - 1) : Then(i)
  \/ \E i \in 0..(Len(items) - 1) : Catch(i)
  \/ \E i \in 0..(Len(items) - 1) : Finally(i)

SpecPool == InitPool /\ [][NextPool]_vars

\* Helpers for the properties of Part I.
Started(i) == wk[i + 1] # "idle"
Running == {i \in 0..(Len(items) - 1) : wk[i + 1] = "running"}
Failed == {i \in 0..(Len(items) - 1) : wk[i + 1] \in {"finallyErr", "doneErr"}}
Succeeded == {i \in 0..(Len(items) - 1) : wk[i + 1] \in {"finallyOk", "doneOk"}}
Unfinished == {i \in 0..(Len(items) - 1) :
                 wk[i + 1] \in {"running", "fulfilled", "rejected", "finallyOk", "finallyErr"}}
Ascending(s) == \A a, b \in 1..Len(s) : a < b => s[a] < s[b]

-----------------------------------------------------------------------------
(***************************************************************************)
(* Properties of Part I (checked under SpecPool).                          *)
(***************************************************************************)

\* C1: in every reachable state of a runWithConcurrency call with limit >= 1,
\* the number of worker invocations that have started and not yet settled is
\* at most limit (and so is the inFlight counter, which also counts the
\* workers whose finally callback is still pending), for every item list and
\* every completion order.
C1_AtMostLimitInFlight ==
  /\ Cardinality(Running) <= limit
  /\ Cardinality(Unfinished) = inFlight
  /\ inFlight <= limit

\* Witness of C1: more items than slots, and exactly limit workers in flight.
C1_Witness ==
  /\ Len(items) > limit
  /\ Cardinality(Running) = limit
  /\ index < Len(items)

\* C2: when every worker succeeds, the call resolves with a sequence of length
\* N whose element i is the result of worker(items[i], i), whatever the order
\* in which the workers completed.  (The slot of an undefined item, for which
\* the loop invokes no worker, is the empty slot new Array left there.)
C2_ResultsInInputOrder ==
  promise = "resolved" =>
    /\ Len(results) = Len(items)
    /\ \A i \in 0..(Len(items) - 1) :
         results[i + 1] = IF items[i + 1] = Undefined THEN Hole
                          ELSE worker(items[i + 1], i)

\* Witness of C2: a resolved call of at least two workers that completed in
\* an order other than the input order.
C2_Witness ==
  /\ promise = "resolved"
  /\ Len(completed) >= 2
  /\ ~Ascending(completed)

\* C3 as stated: the failure of one worker is captured per item, and the
\* overall call does not reject because of it.
C3_Original_NoRejectOnWorkerFailure ==
  Failed # {} => promise # "rejected"

\* C3 amended: a worker failure rejects the overall call (the first failure
\* settles it; the call is then never resolved), there is no per-item error
\* slot; the siblings are neither cancelled nor blocked: every sibling that
\* fulfilled has its result at its own index of the internal results array,
\* and no item is left unstarted once nothing is in flight.
C3_FailureRejectsSiblingsContinue ==
  /\ Failed # {} => promise = "rejected"
  /\ \A j \in Succeeded : results[j + 1] = worker(items[j + 1], j)
  /\ \A j \in Failed : results[j + 1] = Hole
  /\ (poolPc = "called" /\ inFlight = 0) => index = Len(items)

\* Witness of C3: a worker failed and the call rejected, and a sibling that
\* completed after that failure has delivered its result at its own index.
C3_Witness ==
  /\ promise = "rejected"
  /\ \E i \in Failed : \E j \in Succeeded :
       /\ wk[i + 1] = "doneErr"
       /\ wk[j + 1] = "doneOk"
       /\ \E a, b \in 1..Len(completed) : a < b /\ completed[a] = i /\ completed[b] = j
  /\ index = Len(items)
  /\ inFlight = 0

\* C4 as stated: the call does not settle while a worker is still in flight
\* or an item has not yet been started.
C4_Original_SettlesOnlyWhenAllDone ==
  promise # "pending" => (index >= Len(items) /\ inFlight = 0 /\ Unfinished = {})

\* C4 amended: the call RESOLVES only once every item has been taken and no
\* worker is in flight; it may reject earlier, at the first worker failure,
\* while siblings are still in flight or not yet started.
C4_ResolvesOnlyWhenAllDone ==
  promise = "resolved" =>
    /\ index >= Len(items)
    /\ inFlight = 0
    /\ Unfinished = {}
    /\ Failed = {}

\* Witness of C4: a resolved call whose items did not all fit in one round.
C4_Witness ==
  /\ promise = "resolved"
  /\ Len(items) > limit
  /\ Succeeded # {}

-----------------------------------------------------------------------------
(***************************************************************************)
(* Part II: generateSerpQueries and extractJsonFromText                    *)
(*                                                                         *)
(* A text is a sequence of tokens <<kind, n>>: the four brackets, the      *)
(* comma, a string literal <<"str", k>>, a member key with its colon       *)
(* <<"key", k>> (key 1 is "query"), a literal that is no string            *)
(* <<"lit", k>> and a run of prose <<"txt", 0>>.                           *)
(* String literals are atomic, so a bracket inside a literal is not        *)
(* modelled.                                                               *)
(***************************************************************************)
LBrace == <<"{", 0>>
RBrace == <<"}", 0>>
LBrack == <<"[", 0>>
RBrack == <<"]", 0>>
Comma == <<",", 0>>
Prose == <<"txt", 0>>
StrTok(k) == <<"str", k>>
LitTok(k) == <<"lit", k>>
KeyTok(k) == <<"key", k>>
QueryKey == 1
OtherKey == 2

\* JSON values: a string, a literal that is no string (0 is null, k >= 1 the
\* number k), an array of values, an object of members.
Str(k) == [t |-> "str", s |-> k, v |-> <<>>]
Lit(k) == [t |-> "lit", s |-> k, v |-> <<>>]
Arr(elems) == [t |-> "arr", s |-> 0, v |-> elems]
Obj(members) == [t |-> "obj", s |-> 0, v |-> members]
Member(k, val) == [k |-> k, val |-> val]

ParseFail == [ok |-> FALSE, val |-> Str(0), rest |-> <<>>]
ParseOk(val, rest) == [ok |-> TRUE, val |-> val, rest |-> rest]

\* JSON.parse by recursive descent; a syntax error is ok = FALSE.
RECURSIVE ParseValue(_), ParseElems(_, _), ParseMembers(_, _)
ParseValue(toks) ==
  IF toks = <<>> THEN ParseFail
  ELSE IF Head(toks)[1] = "str" THEN ParseOk(Str(Head(toks)[2]), Tail(toks))
  ELSE IF Head(toks)[1] = "lit" THEN ParseOk(Lit(Head(toks)[2]), Tail(toks))
  ELSE IF Head(toks) = LBrack THEN
         IF Len(toks) >= 2 /\ toks[2] = RBrack
           THEN ParseOk(Arr(<<>>), SubSeq(toks, 3, Len(toks)))
           ELSE ParseElems(Tail(toks), <<>>)
  ELSE IF Head(toks) = LBrace THEN
         IF Len(toks) >= 2 /\ toks[2] = RBrace
           THEN ParseOk(Obj(<<>>), SubSeq(toks, 3, Len(toks)))
           ELSE ParseMembers(Tail(toks), <<>>)
  ELSE ParseFail

ParseElems(toks, acc) ==
  LET r == ParseValue(toks)
  IN  IF ~r.ok \/ r.rest = <<>> THEN ParseFail
      ELSE IF Head(r.rest) = Comma THEN ParseElems(Tail(r.rest), Append(acc, r.val))
      ELSE IF Head(r.rest) = RBrack THEN ParseOk(Arr(Append(acc, r.val)), Tail(r.rest))
      ELSE ParseFail

ParseMembers(toks, acc) ==
  IF toks = <<>> \/ Head(toks)[1] # "key" THEN ParseFail
  ELSE LET r == ParseValue(Tail(toks))
           m == Member(Head(toks)[2], r.val)
       IN  IF ~r.ok \/ r.rest = <<>> THEN ParseFail
           ELSE IF Head(r.rest) = Comma THEN ParseMembers(Tail(r.rest), Append(acc, m))
           ELSE IF Head(r.rest) = RBrace THEN ParseOk(Obj(Append(acc, m)), Tail(r.rest))
           ELSE ParseFail

\* JSON.parse(text): the whole text must be one value.
JSONparse(toks) ==
  LET r == ParseValue(toks)
  IN  IF r.ok /\ r.rest = <<>> THEN r ELSE ParseFail

\* isValidJSON(jsonString)
isValidJSON(toks) == JSONparse(toks).ok

\* The `{}` every failure path of extractJsonFromText returns.
EmptyObject == Obj(<<>>)

\* text.match(/\{[\s\S]*?\}/): from the first "{" to the first "}" after it;
\* <<>> when the regex does not match.
RegexMatch(text) ==
  LET opens == {i \in 1..Len(text) : text[i] = LBrace}
  IN  IF opens = {} THEN <<>>
      ELSE LET i == CHOOSE a \in opens : \A b \in opens : a <= b
               closes == {j \in (i + 1)..Len(text) : text[j] = RBrace}
           IN  IF closes = {} THEN <<>>
               ELSE LET j == CHOOSE a \in closes : \A b \in closes : a <= b
                    IN  SubSeq(text, i, j)

\* extractJsonFromText(text)
extractJsonFromText(text) ==
  IF text = <<>> THEN EmptyObject
  ELSE LET match == RegexMatch(text)
       IN  IF match = <<>> THEN EmptyObject
           ELSE LET r == JSONparse(match)
                IN  IF r.ok THEN r.val ELSE EmptyObject

\* The query string of one element of the parsed list: the element's "query"
\* member when the element is an object that has one, else the element itself;
\* a value that is no string is stringified (0 stands for such a string).
HasQuery(elem) == elem.t = "obj" /\ \E n \in 1..Len(elem.v) : elem.v[n].k = QueryKey
QueryMember(elem) ==
  LET ns == {n \in 1..Len(elem.v) : elem.v[n].k = QueryKey}
  IN  elem.v[CHOOSE a \in ns : \A b \in ns : a >= b].val
QueryOf(elem) ==
  LET qv == IF HasQuery(elem) THEN QueryMember(elem) ELSE elem
  IN  IF qv.t = "str" THEN qv.s ELSE 0

\* Array.isArray(rawQueriesJSON) ? rawQueriesJSON.slice(0, numQueries).map(...)
\* .filter(Boolean) : []     (safeParse of two strings always succeeds)
Min(a, b) == IF a <= b THEN a ELSE b
SerpQueriesOf(raw, numQueries) ==
  IF raw.t = "arr"
    THEN [k \in 1..Min(Len(raw.v), numQueries) |-> QueryOf(raw.v[k])]
    ELSE <<>>

\* The jsonString of a generation call that threw or returned no string.
DefaultJsonString == <<LBrace, RBrace>>

\* const DEFAULT_NUM_QUERIES = 3
DEFAULT_NUM_QUERIES == 3

\* learnings.reduce((acc, val) => acc + val.charCodeAt(0), 0): a learning is
\* modelled by its first character code and a tag, <<code, tag>>.
RECURSIVE SumCharCodes(_)
SumCharCodes(ls) == IF ls = <<>> THEN 0 ELSE Head(ls)[1] + SumCharCodes(Tail(ls))
learningsHash(ls) == IF Len(ls) > 0 THEN SumCharCodes(ls) ELSE -1

\* A learning that is no string (null): val.charCodeAt(0) throws a TypeError
\* inside the try block that builds the key.
NotAString == <<0, 0>>
KeyThrows(ls) == \E n \in 1..Len(ls) : ls[n] = NotAString

\* The cache key: JSON.stringify of the key object, from which the fields
\* equal to their default are deleted ("omitted"); when building it throws,
\* catch (e) { cacheKey = rawQuery; }.
Omit(v, default) == IF v = default THEN <<>> ELSE <<v>>
FallbackKey(a) == <<a.query>>
CacheKey(a) ==
  IF KeyThrows(a.learnings) THEN FallbackKey(a)
  ELSE <<a.query, Omit(a.numQueries, DEFAULT_NUM_QUERIES), Omit(a.depth, 1),
         Omit(a.breadth, 1), learningsHash(a.learnings)>>

\* The arguments deepResearch passes: numQueries = breadth.  The learnings are
\* the caller's existingLearnings, which research() does not validate.
LearningLists == {<<>>, <<<<97, 1>>>>, <<<<97, 2>>>>}
IllTypedLearnings == {<<NotAString>>}
SerpArgs ==
  [query : {1}, numQueries : 1..MaxQueries, depth : {1}, breadth : 1..MaxQueries,
   learnings : LearningLists \cup IllTypedLearnings]

\* The answers of the generation capability the model draws from: lists of
\* n sub-queries as objects or as bare strings, alone or wrapped in prose or in
\* an object, the empty object, an object, a truncated text, empty text.
RECURSIVE JoinElems(_)
JoinElems(es) ==
  IF es = <<>> THEN <<>>
  ELSE IF Len(es) = 1 THEN es[1]
  ELSE es[1] \o <<Comma>> \o JoinElems(Tail(es))
ObjElem(k) == <<LBrace, KeyTok(QueryKey), StrTok(k), Comma, KeyTok(OtherKey), StrTok(k), RBrace>>
StrElem(k) == <<StrTok(k)>>
ObjList(n) == <<LBrack>> \o JoinElems([k \in 1..n |-> ObjElem(k)]) \o <<RBrack>>
StrList(n) == <<LBrack>> \o JoinElems([k \in 1..n |-> StrElem(k)]) \o <<RBrack>>
Responses ==
  UNION {{ObjList(n), StrList(n), <<Prose>> \o ObjList(n) \o <<Prose>>,
          <<LBrace, KeyTok(OtherKey)>> \o ObjList(n) \o <<RBrace>>}
         : n \in 0..(MaxQueries + 1)}
  \cup {<<>>, <<LBrace, RBrace>>, ObjElem(1), <<LBrace, KeyTok(QueryKey)>>, <<Prose>>}

InitSerp ==
  /\ PoolIdle
  /\ ResearchIdle
  /\ TopIdle
  /\ ExtractIdle
  /\ CacheIdle
  /\ SplitIdle
  /\ ProgressIdle
  /\ GroupIdle
  /\ serpQueryCache = <<>>
  /\ serpComputedFor = <<>>
  /\ serpArgs = <<>>
  /\ serpText = <<>>
  /\ serpOut = <<>>
  /\ serpPc = "idle"

\* if (cachedResult): the cached value is an array, and every array, the
\* empty one included, is truthy.
truthyIfNonEmpty(cachedResult) == cachedResult # <<>>
truthy(cachedResult) == TRUE

\* generateSerpQueries(a), up to the generation call: a cache hit returns the
\* cached list (an empty list is truthy), a miss issues the generation call.
SerpCall(a) ==
  /\ serpPc \in {"idle", "returned"}
  /\ serpArgs' = a
  /\ IF CacheKey(a) \in DOMAIN serpQueryCache /\ truthy(serpQueryCache[CacheKey(a)])
       THEN /\ serpOut' = serpQueryCache[CacheKey(a)]
            /\ serpPc' = "returned"
            /\ serpText' = <<<<"hit", 0>>>>
       ELSE /\ serpOut' = <<>>
            /\ serpPc' = "awaiting"
            /\ serpText' = <<>>
  /\ UNCHANGED <<serpQueryCache, serpComputedFor, notSerpVars>>

\* The rest of generateSerpQueries once the generation call has returned
\* `text` (threw = TRUE: it threw, jsonString stays '{}'): extraction, the
\* Array.isArray test, the cache store and the return.
SerpGenerationReturns(text, threw) ==
  /\ serpPc = "awaiting"
  /\ LET jsonString == IF threw THEN DefaultJsonString ELSE text
         rawQueriesJSON == extractJsonFromText(jsonString)
         serpQueries == SerpQueriesOf(rawQueriesJSON, serpArgs.numQueries)
         key == CacheKey(serpArgs)
     IN  /\ serpText' = jsonString
         /\ serpOut' = serpQueries
         /\ serpQueryCache' =
              [c \in DOMAIN serpQueryCache \cup {key} |->
                 IF c = key THEN serpQueries ELSE serpQueryCache[c]]
         /\ serpComputedFor' =
              [c \in DOMAIN serpComputedFor \cup {key} |->
                 IF c = key THEN serpArgs ELSE serpComputedFor[c]]
  /\ serpPc' = "returned"
  /\ UNCHANGED <<serpArgs, notSerpVars>>

NextSerp ==
  \/ \E a \in SerpArgs : a.breadth = a.numQueries /\ SerpCall(a)
  \/ \E text \in Responses : SerpGenerationReturns(text, FALSE)
  \/ SerpGenerationReturns(<<>>, TRUE)

SpecSerp == InitSerp /\ [][NextSerp]_vars

-----------------------------------------------------------------------------
(***************************************************************************)
(* Properties of Part II (checked under SpecSerp).                         *)
(***************************************************************************)

\* The answer was a syntactically valid JSON list of at least n sub-queries.
ValidListOfAtLeast(text, n) ==
  /\ isValidJSON(text)
  /\ JSONparse(text).val.t = "arr"
  /\ Len(JSONparse(text).val.v) >= n

\* C9: when the generation capability answers the sub-query request of a task
\* with breadth b with a syntactically valid list of at least b sub-queries,
\* exactly b SubQueries are generated (breadth 2 gives exactly 2).
C9_ExactlyBreadthSubQueries ==
  (serpPc = "returned" /\ ValidListOfAtLeast(serpText, serpArgs.numQueries))
    => Len(serpOut) = serpArgs.numQueries

\* A task with breadth 2 was answered with a valid list of at least two
\* sub-queries, and generateSerpQueries returned no sub-query.
C9_Witness ==
  /\ serpPc = "returned"
  /\ serpArgs.numQueries = 2
  /\ serpArgs.breadth = 2
  /\ ValidListOfAtLeast(serpText, 2)
  /\ serpOut = <<>>

\* The well-formed bracketed structures of a text: the pieces that start with
\* "{" or "[" and parse as JSON; the first one is the one that starts first.
Structures(text) ==
  {ij \in (1..Len(text)) \X (1..Len(text)) :
     /\ ij[1] <= ij[2]
     /\ text[ij[1]] \in {LBrace, LBrack}
     /\ JSONparse(SubSeq(text, ij[1], ij[2])).ok}
FirstStructure(text) ==
  LET ij == CHOOSE a \in Structures(text) : \A b \in Structures(text) : a[1] <= b[1]
  IN  JSONparse(SubSeq(text, ij[1], ij[2])).val
GenerationAnswered == serpPc = "returned" /\ serpText \in Responses \cup {DefaultJsonString}

\* C19: extractJsonFromText returns the parsed value of the first well-formed
\* bracketed structure of the text (nested ones and arrays included), and the
\* empty object only for a text without such a structure.
C19_FirstWellFormedStructure ==
  GenerationAnswered =>
    extractJsonFromText(serpText) =
      IF Structures(serpText) # {} THEN FirstStructure(serpText) ELSE EmptyObject

\* The text was an object with a nested list of objects, well-formed as a
\* whole, and the extraction gave the empty object.
C19_Witness ==
  /\ GenerationAnswered
  /\ isValidJSON(serpText)
  /\ JSONparse(serpText).val.t = "obj"
  /\ Len(JSONparse(serpText).val.v) = 1
  /\ JSONparse(serpText).val.v[1].val.t = "arr"
  /\ Len(JSONparse(serpText).val.v[1].val.v) >= 1
  /\ extractJsonFromText(serpText) = EmptyObject

-----------------------------------------------------------------------------
(***************************************************************************)
(* Part III: deepResearch                                                  *)
(*                                                                         *)
(* The list generateSerpQueries returns is an input here: any list of at   *)
(* most `breadth` sub-queries (line 214 slices it to numQueries).  Part II *)
(* shows which lists the present extraction lets through.                  *)
(***************************************************************************)

\* if (visitedUrls.length > 20)
VisitedUrlsLimit == 20

\* The result record, reduced to the two fields the callers aggregate.
Result(ls, us) == [learnings |-> ls, visitedUrls |-> us]
EmptyResult == Result(<<>>, <<>>)

\* The k-th sub-query of a list, and n copies of a source.
Query(k) == <<"q", k>>
Source(k) == <<"u", k>>
Sources(n) == [i \in 1..n |-> Source(0)]

\* if (depth <= 0) ... if (visitedUrls.length > 20) ...
TerminalCheckDepthOnly(depth, visitedUrls) == depth <= 0
TerminalCheckAtLimit(depth, visitedUrls) ==
  depth <= 0 \/ Len(visitedUrls) >= VisitedUrlsLimit
TerminalCheck(depth, visitedUrls) ==
  depth <= 0 \/ Len(visitedUrls) > VisitedUrlsLimit

\* const newBreadth = Math.ceil(breadth / 2); const newDepth = depth - 1;
newBreadthFloor(breadth) == breadth \div 2
newBreadth(breadth) == IF breadth % 2 = 0 THEN breadth \div 2 ELSE breadth \div 2 + 1
newDepth(depth) == depth - 1

\* deepResearch(...) up to its first await: the two base cases return the
\* empty result, otherwise generateSerpQueries is awaited (pc = "gen").
\* nGen counts the generation requests the invocation has issued;
\* completedQueries is the field of its progress snapshot (line 666).
NewTask(depth, breadth, learnings, visitedUrls) ==
  LET base == TerminalCheck(depth, visitedUrls)
  IN  [depth |-> depth, breadth |-> breadth,
       learnings |-> learnings, visitedUrls |-> visitedUrls,
       pc |-> IF base THEN "returned" ELSE "gen",
       base |-> base,
       nGen |-> IF base THEN 0 ELSE 1,
       serpQueries |-> <<>>,
       completedQueries |-> 0,
       w |-> <<>>,
       result |-> EmptyResult]

\* A worker: limit(() => limitedProcessResult(serpQuery)).
\*   st      queued (waiting for a slot of the limiter) / calling (its
\*           generation call is in flight) / recursing (awaiting the nested
\*           deepResearch) / fulfilled / rejected
\*   failed  an exception was caught on its way
\*   nested  it awaited a nested deepResearch
\*   res     the ProcessResult it returned
QueuedWorker == [st |-> "queued", failed |-> FALSE, nested |-> FALSE, res |-> EmptyResult]

\* What the catch blocks of limitedProcessResult make of an exception: the
\* worker returns the empty result.
Rethrown == [st |-> "rejected", failed |-> TRUE, nested |-> FALSE, res |-> EmptyResult]
Caught == [st |-> "fulfilled", failed |-> TRUE, nested |-> FALSE, res |-> EmptyResult]

Returned(res) == [st |-> "fulfilled", failed |-> FALSE, nested |-> FALSE, res |-> res]

\* const limit = pLimit(ConcurrencyLimit): every invocation creates its own
\* limiter, named here by the invocation's path.
limiterShared(p) == <<>>
limiterOf(p) == p

\* pLimit admits a queued function while activeCount < concurrency.
SlotFreeOffByOne(active) == active <= ConcurrencyLimit
SlotFree(active) == active < ConcurrencyLimit

InFlightStates == {"calling", "recursing"}
WorkersIn(T, states) ==
  UNION {{<<p, k>> : k \in {j \in 1..Len(T[p].w) : T[p].w[j].st \in states}} : p \in DOMAIN T}
WorkersOn(T, L, states) ==
  UNION {{<<p, k>> : k \in {j \in 1..Len(T[p].w) : T[p].w[j].st \in states}} :
           p \in {q \in DOMAIN T : limiterOf(q) = L}}
ActiveCount(T, L) == Cardinality(WorkersOn(T, L, InFlightStates))
QueuedOn(T, L) == WorkersOn(T, L, {"queued"})

\* The limiter starts the queued functions in order while a slot is free; a
\* started worker runs up to its generation call (callGeminiProConfigurable).
\* (T \in {e} binds T to the value of e, so that e is evaluated once.)
RECURSIVE pLimitRun(_, _)
pLimitRun(e, L) ==
  LET Start(T, pk) ==
        pLimitRun([T EXCEPT ![pk[1]].w[pk[2]].st = "calling", ![pk[1]].nGen = @ + 1], L)
      Run(T) ==
        IF SlotFree(ActiveCount(T, L)) /\ QueuedOn(T, L) # {}
          THEN CHOOSE R \in {Start(T, pk) :
                               pk \in {CHOOSE a \in QueuedOn(T, L) :
                                         \A b \in QueuedOn(T, L) : b[1] = a[1] => a[2] <= b[2]}} : TRUE
          ELSE T
  IN  CHOOSE R \in {Run(T) : T \in {e}} : TRUE

\* The worker's function settles with record r: the limiter frees its slot
\* and starts what is queued.
Settle(T, p, k, r) == pLimitRun([T EXCEPT ![p].w[k] = r], limiterOf(p))

\* const result = { data: [] } (Firecrawl disabled), and what processSerpResult
\* extracts from it: each content item carries the learnings its chunks yield,
\* at most numLearnings = 3 are kept.
FirecrawlData == <<>>
RECURSIVE Flatten(_)
Flatten(ss) == IF ss = <<>> THEN <<>> ELSE Head(ss) \o Flatten(Tail(ss))
processSerpResult(data) ==
  LET all == Flatten([n \in 1..Len(data) |-> data[n].learnings])
  IN  SubSeq(all, 1, Min(Len(all), 3))
UrlsOf(data) == [n \in 1..Len(data) |-> data[n].url]

\* How the worker can go on from its generation call: the call or
\* processGeminiResponse throws and the outer catch block takes over, or
\* nothing throws.  (The inner catch block is reached by a rejection of the
\* nested deepResearch.)
Outcomes == {"throws", "ok"}

Includes(seq, x) == \E n \in 1..Len(seq) : seq[n] = x

\* compact(results.flatMap(r => r.learnings))
compact(seq) == SelectSeq(seq, LAMBDA x : x # "")
Aggregated(ws) ==
  Result(compact(Flatten([k \in 1..Len(ws) |-> ws[k].res.learnings])),
         compact(Flatten([k \in 1..Len(ws) |-> ws[k].res.visitedUrls])))

\* What processGeminiResponse extracts from the response to a sub-query
\* (geminiResult.learnings and geminiResult.urls): the response to a sub-query
\* with an odd number yields one learning and one source, the response to one
\* with an even number yields nothing.
geminiResult(serpQuery) ==
  IF serpQuery[2] % 2 = 1
    THEN Result(<<<<"learning", serpQuery[2]>>>>, <<Source(serpQuery[2])>>)
    ELSE EmptyResult

\* progress = { ..., completedQueries: progress.completedQueries + 1, ... }
\* before the nested call, and progress.completedQueries += 1 in the finally
\* block of the inner try.
reassigned(t) == [t EXCEPT !.completedQueries = @ + 1]
finallyCountsTwice(t) == [t EXCEPT !.completedQueries = @ + 2]
finally(t) == [t EXCEPT !.completedQueries = @ + 1]

\* totalQueries: breadth * depth
TotalQueries(t) == t.breadth * t.depth

\* The arguments research() and its callers can pass.
\* The visited lists deepResearch is called with: none, exactly 20 (among them
\* the sub-queries, which the workers' visited check looks up), and 21.
InitialVisited ==
  {<<>>,
   Sources(VisitedUrlsLimit - MaxBreadth) \o [k \in 1..MaxBreadth |-> Query(k)],
   Sources(VisitedUrlsLimit + 1)}

InitResearch ==
  /\ PoolIdle
  /\ SerpIdle
  /\ TopIdle
  /\ ExtractIdle
  /\ CacheIdle
  /\ SplitIdle
  /\ ProgressIdle
  /\ GroupIdle
  /\ ConcurrencyLimit \in 1..MaxCeiling
  /\ \E d \in 0..MaxDepth, b \in 1..MaxBreadth, v \in InitialVisited :
       tasks = [p \in {<<>>} |->
                  [NewTask(d, b, <<>>, v) EXCEPT !.pc = "called", !.nGen = 0, !.base = FALSE]]

\* The continuations that run without waiting for any I/O.  Between two
\* completions of generation calls the event loop drains the whole microtask
\* queue, so these steps happen in the same turn as the completion that
\* enables them.

\* await Promise.all(promises) and the aggregation: the call rejects as soon
\* as one worker has rejected, returns the flattened results once all fulfilled.
CanAggregate(T, p) ==
  /\ T[p].pc = "dispatched"
  /\ \/ \E k \in 1..Len(T[p].w) : T[p].w[k].st = "rejected"
     \/ \A k \in 1..Len(T[p].w) : T[p].w[k].st = "fulfilled"
Aggregate(T, p) ==
  IF \E k \in 1..Len(T[p].w) : T[p].w[k].st = "rejected"
    THEN [T EXCEPT ![p].pc = "rejected"]
    ELSE [T EXCEPT ![p].pc = "returned", ![p].result = Aggregated(T[p].w)]

\* The nested deepResearch of worker k of task p has settled: the worker
\* returns the nested result (a rejection is caught by the inner catch), and
\* the nested invocation is gone.
CanChildReturn(T, p, k) ==
  /\ T[p].w[k].st = "recursing"
  /\ Append(p, k) \in DOMAIN T
  /\ T[Append(p, k)].pc \in {"returned", "rejected"}
ChildReturns(T, p, k) ==
  LET c == T[Append(p, k)]
      r == IF c.pc = "returned"
             THEN Returned(Result(c.result.learnings, c.result.visitedUrls))
             ELSE Caught
      T1 == [q \in DOMAIN T \ {Append(p, k)} |->
               IF q = p THEN finally(T[q]) ELSE T[q]]
  IN  Settle(T1, p, k, [r EXCEPT !.nested = TRUE])

\* The turn of the event loop: every continuation that is ready runs.
RECURSIVE Drain(_)
Drain(e) ==
  LET Turn(T) ==
        IF \E p \in DOMAIN T : CanAggregate(T, p)
          THEN CHOOSE R \in {Drain(Aggregate(T, p)) :
                               p \in {CHOOSE q \in DOMAIN T : CanAggregate(T, q)}} : TRUE
        ELSE IF \E pk \in WorkersIn(T, {"recursing"}) : CanChildReturn(T, pk[1], pk[2])
          THEN CHOOSE R \in {Drain(ChildReturns(T, pk[1], pk[2])) :
                               pk \in {CHOOSE a \in WorkersIn(T, {"recursing"}) :
                                         CanChildReturn(T, a[1], a[2])}} : TRUE
        ELSE T
  IN  CHOOSE R \in {Turn(T) : T \in {e}} : TRUE

\* let visitedUrls = [...initialVisitedUrls]; let learnings = [...initialLearnings]:
\* the two variables of an invocation that its workers read (the prompt at line
\* 696, the visited check at 703, allLearnings / allUrls at 753-754).  Nothing
\* assigns them between lines 658 and 857, so while the workers run they hold
\* what the invocation was called with.  (In the variant every worker that has
\* read its response pushes what it extracted into them.)
Extracted(t) ==
  LET done == {k \in 1..Len(t.w) : t.w[k].st \notin {"queued", "calling"}}
      found == [k \in 1..Len(t.w) |->
                  IF k \in done THEN geminiResult(t.serpQueries[k]) ELSE EmptyResult]
  IN  Result(Flatten([k \in 1..Len(t.w) |-> found[k].learnings]),
             Flatten([k \in 1..Len(t.w) |-> found[k].visitedUrls]))
heldPushedInPlace(t) ==
  Result(t.learnings \o Extracted(t).learnings, t.visitedUrls \o Extracted(t).visitedUrls)
held(t) == Result(t.learnings, t.visitedUrls)

\* research() calls deepResearch: the terminal check, then the sub-query request.
DeepResearchEnter ==
  /\ <<>> \in DOMAIN tasks
  /\ tasks[<<>>].pc = "called"
  /\ LET t == tasks[<<>>]
     IN  tasks' = [tasks EXCEPT ![<<>>] = NewTask(t.depth, t.breadth, t.learnings, t.visitedUrls)]
  /\ UNCHANGED <<ConcurrencyLimit, notResearchVars>>

\* generateSerpQueries returns n sub-queries: the limiter is created, every
\* sub-query is handed to it, and it starts as many workers as it has slots.
QueriesReturn(p, n) ==
  /\ p \in DOMAIN tasks
  /\ tasks[p].pc = "gen"
  /\ n \in 0..tasks[p].breadth
  /\ LET T1 == [tasks EXCEPT ![p].serpQueries = [k \in 1..n |-> Query(k)],
                             ![p].w = [k \in 1..n |-> QueuedWorker],
                             ![p].pc = "dispatched"]
     IN  tasks' = Drain(pLimitRun(T1, limiterOf(p)))
  /\ UNCHANGED <<ConcurrencyLimit, notResearchVars>>

\* The generation call of worker k of task p returns; the worker runs on to
\* its return or to the nested deepResearch call.
CallReturns(p, k, out) ==
  /\ p \in DOMAIN tasks
  /\ k \in 1..Len(tasks[p].w)
  /\ tasks[p].w[k].st = "calling"
  /\ LET t == tasks[p]
         extracted == geminiResult(t.serpQueries[k])
         newUrls0 == extracted.visitedUrls
         newLearnings0 == extracted.learnings
         newUrls == UrlsOf(FirecrawlData)
         newLearnings == processSerpResult(FirecrawlData)
         allLearnings == held(t).learnings \o newLearnings
         allUrls == held(t).visitedUrls \o newUrls
         T1 == IF out = "throws"
                 THEN Settle(tasks, p, k, Caught)
               ELSE IF Includes(held(t).visitedUrls, t.serpQueries[k])
                 THEN Settle(tasks, p, k, Returned(EmptyResult))
               ELSE IF newDepth(t.depth) > 0
                 THEN [q \in DOMAIN tasks \cup {Append(p, k)} |->
                         IF q = Append(p, k)
                           THEN NewTask(newDepth(t.depth), newBreadth(t.breadth),
                                        allLearnings, allUrls)
                         ELSE IF q = p THEN [reassigned(t) EXCEPT !.w[k].st = "recursing"]
                         ELSE tasks[q]]
               ELSE Settle([tasks EXCEPT ![p] = finally(t)], p, k,
                           Returned(Result(newLearnings, newUrls)))
     IN  tasks' = Drain(T1)
  /\ UNCHANGED <<ConcurrencyLimit, notResearchVars>>

Paths == DOMAIN tasks

NextResearch ==
  \/ DeepResearchEnter
  \/ \E p \in Paths : \E n \in 0..MaxBreadth : QueriesReturn(p, n)
  \/ \E p \in Paths : \E k \in 1..MaxBreadth : \E out \in Outcomes :
       CallReturns(p, k, out)

SpecResearch == InitResearch /\ [][NextResearch]_vars

\* Every generation call in flight eventually returns or fails.
SpecResearchFair == SpecResearch /\ WF_vars(NextResearch)

-----------------------------------------------------------------------------
(***************************************************************************)
(* Properties of Part III (checked under SpecResearch, C7 under            *)
(* SpecResearchFair).                                                      *)
(***************************************************************************)

Root == tasks[<<>>]
Parent(p) == SubSeq(p, 1, Len(p) - 1)
Nested == DOMAIN tasks \ {<<>>}
WorkersOf(p) == 1..Len(tasks[p].w)

\* C5: deepResearch called with depth <= 0 or with more than 20 visited
\* sources has returned the empty result right after the call, without a
\* sub-query request, a generation call or a worker; called with exactly 20
\* visited sources and depth >= 1 it has gone on to request sub-queries.
C5_TerminalCheck ==
  \A p \in DOMAIN tasks :
    LET t == tasks[p]
    IN  t.pc # "called" =>
          /\ (t.depth <= 0 \/ Len(t.visitedUrls) > VisitedUrlsLimit) =>
                /\ t.pc = "returned"
                /\ t.result = EmptyResult
                /\ t.nGen = 0
                /\ t.serpQueries = <<>>
                /\ t.w = <<>>
          /\ (t.depth >= 1 /\ Len(t.visitedUrls) = VisitedUrlsLimit) =>
                /\ ~t.base
                /\ t.nGen >= 1

\* A call with depth >= 1 and 21 visited sources has returned by the base case.
C5_Witness ==
  /\ Root.pc = "returned"
  /\ Root.base
  /\ Root.depth >= 1
  /\ Len(Root.visitedUrls) = VisitedUrlsLimit + 1
  /\ Root.result = EmptyResult

\* C6: a nested invocation carries its parent's depth minus one and the
\* ceiling of half its parent's breadth, and the number of invocations on a
\* path of the recursion tree never exceeds the initial depth.
C6_BudgetDecay ==
  \A p \in Nested :
    /\ Parent(p) \in DOMAIN tasks
    /\ tasks[p].depth = tasks[Parent(p)].depth - 1
    /\ 2 * tasks[p].breadth \in {tasks[Parent(p)].breadth, tasks[Parent(p)].breadth + 1}
    /\ Len(p) + 1 <= Root.depth

\* A nested invocation of a parent with an odd breadth is running.
C6_Witness ==
  \E p \in Nested :
    /\ tasks[Parent(p)].breadth % 2 = 1
    /\ tasks[p].breadth >= 1
    /\ tasks[p].pc = "dispatched"

\* C7: if every generation call eventually returns or fails, the top-level
\* deepResearch call eventually returns, whatever the depth, the breadth and
\* the ceiling.
C7_TopLevelReturns == <>(Root.pc = "returned")

\* With a ceiling of 1 and depth 2 the top-level call has returned after one
\* of its workers awaited a nested invocation.
C7_Witness ==
  /\ ConcurrencyLimit = 1
  /\ Root.depth >= 2
  /\ Root.pc = "returned"
  /\ \E k \in WorkersOf(<<>>) : Root.w[k].nested /\ ~Root.w[k].failed

C10_WorkerFailureIsolated ==
  \A p \in DOMAIN tasks :
    /\ tasks[p].pc # "rejected"
    /\ \A k \in WorkersOf(p) :
         /\ tasks[p].w[k].st # "rejected"
         /\ tasks[p].w[k].failed =>
              tasks[p].w[k].st = "fulfilled" /\ tasks[p].w[k].res = EmptyResult
    /\ (tasks[p].pc = "returned" /\ ~tasks[p].base) =>
         /\ \A k \in WorkersOf(p) : tasks[p].w[k].st = "fulfilled"
         /\ tasks[p].result.learnings =
              Flatten([k \in WorkersOf(p) |-> tasks[p].w[k].res.learnings])
         /\ tasks[p].result.visitedUrls =
              Flatten([k \in WorkersOf(p) |-> tasks[p].w[k].res.visitedUrls])

\* The top-level call has returned although one of its workers failed; the
\* failed worker's sibling ran to its own return.
C10_Witness ==
  /\ Root.pc = "returned"
  /\ \E j, k \in WorkersOf(<<>>) :
       /\ j # k
       /\ Root.w[j].failed
       /\ ~Root.w[k].failed
       /\ Root.w[k].st = "fulfilled"

SetOf(seq) == {seq[n] : n \in 1..Len(seq)}
NoDuplicates(seq) == \A m, n \in 1..Len(seq) : seq[m] = seq[n] => m = n

\* A worker that ran through the leaf branch: no exception, its sub-query not
\* among the visited sources, and no budget left for a nested call.
LeafWorker(t, k) ==
  /\ t.w[k].st = "fulfilled"
  /\ ~t.w[k].failed
  /\ ~t.w[k].nested
  /\ newDepth(t.depth) = 0
  /\ ~Includes(t.visitedUrls, t.serpQueries[k])

C15_VisitedWithinLimit ==
  \A p \in DOMAIN tasks :
    LET t == tasks[p]
    IN  (t.pc # "called" /\ ~t.base) =>
          /\ Len(t.visitedUrls) <= VisitedUrlsLimit
          /\ Len(t.result.visitedUrls) <= VisitedUrlsLimit

\* A task carrying exactly 20 visited sources has dispatched its workers.
C15_Witness ==
  /\ Root.pc = "dispatched"
  /\ Len(Root.visitedUrls) = VisitedUrlsLimit
  /\ Len(Root.w) >= 1

-----------------------------------------------------------------------------
(***************************************************************************)
(* Part IV: research(), writeFinalReport and the deepResearch.run handler  *)
(*                                                                         *)
(* deepResearch is taken by what it settles with: a result, or the         *)
(* exception that pLimit throws for a ceiling that is no number >= 1.      *)
(* The caches keep their entries (no eviction within MaxCalls calls, no    *)
(* expiry of the handler's cache).                                         *)
(***************************************************************************)

\* A settled promise: fulfilled with v, or rejected.
Value(v) == <<"value", v>>
Thrown == <<"exception", <<>>>>
IsValue(x) == x # <<>> /\ x[1] = "value"
IsThrown(x) == x # <<>> /\ x[1] = "exception"

\* The four generation calls of writeFinalReport, in the order it awaits them.
Helpers == <<"outline", "report", "summary", "title">>

\* How one of them can go: the call throws, it answers text that is no JSON
\* (empty text included), it answers the JSON null, it answers the object asked for.
HelperOutcomes == {"throws", "malformed", "null", "valid"}

\* The strings a helper returns: what was generated, the default of a parse
\* that failed, the string of its catch block (only generateTitle has two
\* different fallback strings).
Generated(n) == <<"generated", n>>
DefaultText(n) == <<"default", n>>
CatchText(n) == IF Helpers[n] = "title" THEN <<"caught", n>> ELSE DefaultText(n)

\* catch (error) { output.log(...); return '... could not be generated.'; }
HelperRethrows(n) == Thrown
HelperCatches(n) == Value(CatchText(n))

\* generateOutline, writeReportFromOutline, generateSummary, generateTitle.
Helper(n, outcome) ==
  CASE outcome = "valid" -> Value(Generated(n))
    [] outcome = "malformed" -> Value(DefaultText(n))
    [] OTHER -> HelperCatches(n)

\* The cache key of writeFinalReport: the prompt and the hashes of the
\* learnings and of the visited URLs.
ReportKey(query, result) == <<query, learningsHash(result.learnings), learningsHash(result.visitedUrls)>>

\* hashKey({ query, depth, breadth, existingLearnings })
HandlerKey(call) == <<call.query, call.depth>>

FinalReport(parts, result) == [parts |-> parts, learnings |-> result.learnings]

\* The handler's two return values.
FinalResult(report, result) ==
  [text |-> report, learnings |-> result.learnings, visitedUrls |-> result.visitedUrls]
ErrorResult == [text |-> "Error during deep research", learnings |-> <<>>, visitedUrls |-> <<>>]

Put(cache, key, val) == [c \in DOMAIN cache \cup {key} |-> IF c = key THEN val ELSE cache[c]]

\* reportCache.set(cacheKey, { __returned: finalReportContent, ... })
reportCacheSetDropped(cache, key, report) == cache
reportCacheSet(cache, key, report) == Put(cache, key, report)

\* The handler's catch block: it builds the error response and returns it; the
\* only deepResearchCache.set is the one in the try block.
catchStoresResponse(cache, key) == Put(cache, key, ErrorResult)
catch(cache, key) == cache

\* The handler has its report: it builds the final result, stores it under the
\* request's key and returns it.
HandlerReturns(report, result, reports) ==
  LET final == FinalResult(report, result)
  IN  /\ topOut' = Value(final)
      /\ deepResearchCache' = Put(deepResearchCache, HandlerKey(topCall), final)
      /\ reportCache' = reports
      /\ topParts' = <<>>
      /\ topPc' = "settled"

\* research() has settled with r (its writeFinalReport left `reports` in the
\* report cache): a direct caller receives r; the handler catches a rejection
\* and returns the error result, otherwise it calls writeFinalReport itself:
\* the call returns the cached report of its key, or, when there is none,
\* starts generating one (topPc = "handlerReport").
ResearchSettles(r, reports) ==
  /\ topResult' = r
  /\ IF topCall.caller = "research"
       THEN /\ topOut' = r
            /\ reportCache' = reports
            /\ topParts' = <<>>
            /\ topPc' = "settled"
            /\ UNCHANGED deepResearchCache
     ELSE IF IsThrown(r)
       THEN /\ topOut' = Value(ErrorResult)
            /\ reportCache' = reports
            /\ topParts' = <<>>
            /\ topPc' = "settled"
            /\ deepResearchCache' = catch(deepResearchCache, HandlerKey(topCall))
     ELSE IF ReportKey(topCall.query, r[2]) \in DOMAIN reports
       THEN HandlerReturns(reports[ReportKey(topCall.query, r[2])], r[2], reports)
     ELSE /\ topOut' = <<>>
          /\ reportCache' = reports
          /\ topParts' = <<>>
          /\ topPc' = "handlerReport"
          /\ UNCHANGED deepResearchCache

InitTop ==
  /\ PoolIdle
  /\ SerpIdle
  /\ ResearchIdle
  /\ ExtractIdle
  /\ CacheIdle
  /\ SplitIdle
  /\ ProgressIdle
  /\ GroupIdle
  /\ deepResearchCache = <<>>
  /\ reportCache = <<>>
  /\ ceilingValid \in BOOLEAN
  /\ topCall = <<>>
  /\ topResult = <<>>
  /\ topParts = <<>>
  /\ topSynth = 0
  /\ topOut = <<>>
  /\ topPc = "idle"
  /\ nCalls = 0

\* A caller calls research(), or the deepResearch.run handler, which looks the
\* request up in its cache before it calls research().
TopCall(caller, query, depth) ==
  /\ topPc \in {"idle", "settled"}
  /\ nCalls < MaxCalls
  /\ caller = "handler" => depth >= 1
  /\ nCalls' = nCalls + 1
  /\ LET call == [caller |-> caller, query |-> query, depth |-> depth]
     IN  /\ topCall' = call
         /\ IF caller = "handler" /\ HandlerKey(call) \in DOMAIN deepResearchCache
              THEN /\ topOut' = Value(deepResearchCache[HandlerKey(call)])
                   /\ topPc' = "settled"
              ELSE /\ topOut' = <<>>
                   /\ topPc' = "deepResearch"
  /\ topResult' = <<>>
  /\ topParts' = <<>>
  /\ topSynth' = 0
  /\ UNCHANGED <<deepResearchCache, reportCache, ceilingValid, notTopVars>>

\* deepResearch settles: past the terminal check it rejects when the ceiling
\* is invalid, otherwise it returns a result with the learnings ls; research()
\* goes on to writeFinalReport, which returns the cached report or starts
\* generating one.
DeepResearchSettles(ls) ==
  /\ topPc = "deepResearch"
  /\ topCall.depth <= 0 => ls = <<>>
  /\ LET result == Result(ls, <<>>)
         key == ReportKey(topCall.query, result)
     IN  IF topCall.depth >= 1 /\ ~ceilingValid
           THEN ResearchSettles(Thrown, reportCache)
         ELSE IF key \in DOMAIN reportCache
           THEN ResearchSettles(Value(result), reportCache)
         ELSE /\ topResult' = Value(result)
              /\ topParts' = <<>>
              /\ topPc' = "report"
              /\ UNCHANGED <<topOut, reportCache, deepResearchCache>>
  /\ UNCHANGED <<ceilingValid, topCall, topSynth, nCalls, notTopVars>>

\* The pending generation call of writeFinalReport is over: the helper returns
\* its string (or rejects), and after the fourth the report is assembled,
\* cached and saved.  In research() (topPc = "report") research() then returns
\* the research result; in the handler's own call (topPc = "handlerReport")
\* the handler goes on with the report, and a rejection reaches its catch block.
HelperReturns(outcome) ==
  /\ topPc \in {"report", "handlerReport"}
  /\ topSynth' = topSynth + 1
  /\ LET n == Len(topParts) + 1
         part == Helper(n, outcome)
         result == topResult[2]
         report == FinalReport(Append(topParts, part[2]), result)
         reports == reportCacheSet(reportCache, ReportKey(topCall.query, result), report)
     IN  IF IsThrown(part)
           THEN IF topPc = "report"
                  THEN ResearchSettles(Thrown, reportCache)
                  ELSE /\ topOut' = Value(ErrorResult)
                       /\ topParts' = <<>>
                       /\ topPc' = "settled"
                       /\ deepResearchCache' = catch(deepResearchCache, HandlerKey(topCall))
                       /\ UNCHANGED <<topResult, reportCache>>
         ELSE IF n < Len(Helpers)
           THEN /\ topParts' = Append(topParts, part[2])
                /\ UNCHANGED <<topResult, topOut, topPc, reportCache, deepResearchCache>>
         ELSE IF topPc = "report"
           THEN ResearchSettles(Value(result), reports)
         ELSE /\ HandlerReturns(report, result, reports)
              /\ UNCHANGED topResult
  /\ UNCHANGED <<ceilingValid, topCall, nCalls, notTopVars>>

TopQueries == {1}
TopDepths == {0, 1, 2}

NextTop ==
  \/ \E caller \in {"research", "handler"}, query \in TopQueries, depth \in TopDepths :
       TopCall(caller, query, depth)
  \/ \E ls \in LearningLists : DeepResearchSettles(ls)
  \/ \E outcome \in HelperOutcomes : HelperReturns(outcome)

SpecTop == InitTop /\ [][NextTop]_vars

\* C11: whatever the generation calls do, a top-level call that has settled
\* has delivered a value: the handler in every configuration, research()
\* whenever the concurrency ceiling is a number >= 1.
C11_CallerReceivesResult ==
  (topPc = "settled" /\ (topCall.caller = "handler" \/ ceilingValid)) => IsValue(topOut)

\* research() has returned a result although a generation call of the report threw.
C11_Witness ==
  /\ topPc = "settled"
  /\ topCall.caller = "research"
  /\ ceilingValid
  /\ IsValue(topOut)
  /\ \E k \in DOMAIN reportCache : reportCache[k].parts[4] = CatchText(4)

-----------------------------------------------------------------------------
(***************************************************************************)
(* Part V: the two extractions                                             *)
(*                                                                         *)
(* generateFeedback parses the answer of its generation call against       *)
(* FeedbackResponseSchema and has one repair pass; processGeminiResponse,  *)
(* the extraction of the deepResearch workers, parses with safeParseJSON   *)
(* and scans the raw text for citations.  Texts are token sequences as in  *)
(* Part II, with two more kinds of prose: <<"cite", n>> is the text        *)
(* "[[n]]" and <<"ref", n>> the text "[n]".  The context field of a        *)
(* citation (the text up to the next period) is left out.                  *)
(***************************************************************************)
CiteTok(n) == <<"cite", n>>
RefTok(n) == <<"ref", n>>

\* Member keys.
ItemsKey == 3
LearningKey == 4
LearningsKey == 5
UrlKey == 6
AnalysisKey == 7
QuestionsKey == 8

\* The string literals of the texts, by number:
\*   1, 2  plain learnings (also used as URLs)
\*   3     a learning that contains 'INTERNAL PROCESS:'
\*   4     string 1 followed by " [[7]]"
\*   5     "[note]"
\*   6     string 1 followed by " ]"
\*   11    an analysis of >= 100 characters that passes validateAcademicOutput
\*   12    an analysis of >= 100 characters that does not
\*   13    an analysis of < 100 characters
\*   14    a follow-up question of >= 10 characters
\*   21..24 the fixed analysis strings of generateFeedback
NoString == 0
FailedAnalysis == 21
ErrorAnalysis == 22
UnableAnalysis == 23

\* The value of member `key` of an object (the last one wins), NoMember when
\* there is none or v is no object.
NoMember == [t |-> "undefined", s |-> 0, v |-> <<>>]
Get(v, key) ==
  IF v.t # "obj" THEN NoMember
  ELSE LET ns == {n \in 1..Len(v.v) : v.v[n].k = key}
       IN  IF ns = {} THEN NoMember
           ELSE v.v[CHOOSE n \in ns : \A m \in ns : m <= n].val

(************************ generateFeedback *********************************)

\* FeedbackResponseSchema.parse(JSON.parse(jsonText)) succeeds: an object whose
\* analysis is a string of >= 100 characters and whose followUpQuestions is an
\* array of at most 5 strings of >= 10 characters.
SchemaNeverMatches(jsonText) == FALSE
SchemaMatches(jsonText) ==
  LET r == JSONparse(jsonText)
      a == Get(r.val, AnalysisKey)
      q == Get(r.val, QuestionsKey)
  IN  /\ r.ok
      /\ r.val.t = "obj"
      /\ a.t = "str" /\ a.s \in {11, 12}
      /\ q.t = "arr" /\ Len(q.v) <= 5
      /\ \A n \in 1..Len(q.v) : q.v[n].t = "str" /\ q.v[n].s = 14

FeedbackResponse(analysis, followUpQuestions) ==
  [analysis |-> analysis, followUpQuestions |-> followUpQuestions]
ParsedFeedback(jsonText) ==
  LET val == JSONparse(jsonText).val
      q == Get(val, QuestionsKey).v
  IN  FeedbackResponse(Get(val, AnalysisKey).s, [n \in 1..Len(q) |-> q[n].s])

\* The three fixed responses.
FailedToParse == FeedbackResponse(FailedAnalysis, <<>>)
ErrorGenerating == FeedbackResponse(ErrorAnalysis, <<>>)
UnableToGenerate == FeedbackResponse(UnableAnalysis, <<>>)

\* validateAcademicOutput(analysis): citation density, recent sources and a
\* conflict disclosure; of the strings above only 11 has them.
validateAcademicOutput(analysis) == analysis = 11

\* The second parse attempt, after the repair pass.
AfterRepairDiscarded(jsonText) == FailedToParse
AfterRepair(jsonText) ==
  IF SchemaMatches(jsonText) THEN ParsedFeedback(jsonText) ELSE FailedToParse

\* catch (apiError) { feedbackResponse = { analysis: "Error generating ..." } }
ApiErrorCaught == Value(ErrorGenerating)

\* The texts the generation capability answers generateFeedback with.
FeedbackText(a, n) ==
  <<LBrace, KeyTok(AnalysisKey), StrTok(a), Comma, KeyTok(QuestionsKey), LBrack>>
    \o JoinElems([k \in 1..n |-> <<StrTok(14)>>]) \o <<RBrack, RBrace>>
FeedbackTexts ==
  {FeedbackText(a, n) : a \in {11, 12, 13}, n \in {0, 2}}
  \cup {<<>>, <<Prose>>, <<LitTok(0)>>, <<LBrace, KeyTok(AnalysisKey)>>,
        <<Prose>> \o FeedbackText(11, 2)}
CallThrew == <<<<"threw", 0>>>>

(************************ processGeminiResponse ****************************)

\* item.learning passes the filter of lines 1042-1045.
KeptLearning(v) == v.t = "str" /\ v.s # NoString /\ v.s # 3

\* l.replace(/\[.*?\]/g, '').trim(): the non-greedy match takes "[[7]" out of
\* string 4 and leaves the second "]".
Sanitized(k) == IF k = 4 THEN 6 ELSE IF k = 5 THEN NoString ELSE k

\* What one item pushes to learnings and to urls.
ItemLearnings(item) ==
  LET l == Get(item, LearningKey)
      ls == Get(item, LearningsKey)
  IN  (IF KeptLearning(l) THEN <<l>> ELSE <<>>)
        \o (IF ls.t = "arr" THEN ls.v ELSE <<>>)
ItemUrls(item) ==
  LET u == Get(item, UrlKey)
  IN  IF u.t = "str" /\ u.s # NoString THEN <<u.s>> ELSE <<>>

\* Array.from(new Set(urls))
RECURSIVE Unique(_)
Unique(seq) ==
  IF seq = <<>> THEN <<>>
  ELSE LET init == Unique(SubSeq(seq, 1, Len(seq) - 1))
       IN  IF Includes(init, seq[Len(seq)]) THEN init ELSE Append(init, seq[Len(seq)])

\* geminiResponseText.match(/\[\[\d+\]\]/g): the scan goes on behind every
\* match.  A match is "[[n]]" in prose, inside string 4, or the five tokens
\* [ [ n ] ] of a nested array of one number.
IsCiteRun(text) ==
  /\ Len(text) >= 5
  /\ text[1] = LBrack /\ text[2] = LBrack
  /\ text[3][1] = "lit" /\ text[3][2] >= 1
  /\ text[4] = RBrack /\ text[5] = RBrack
CitesOfTok(tok) ==
  IF tok[1] = "cite" THEN <<tok[2]>>
  ELSE IF tok = StrTok(4) THEN <<7>>
  ELSE <<>>
RECURSIVE citationMatchesFirstOnly(_)
citationMatchesFirstOnly(text) ==
  IF text = <<>> THEN <<>>
  ELSE IF IsCiteRun(text) THEN <<text[3][2]>>
  ELSE IF CitesOfTok(Head(text)) # <<>> THEN CitesOfTok(Head(text))
  ELSE citationMatchesFirstOnly(Tail(text))
RECURSIVE citationMatches(_)
citationMatches(text) ==
  IF text = <<>> THEN <<>>
  ELSE IF IsCiteRun(text) THEN <<text[3][2]>> \o citationMatches(SubSeq(text, 6, Len(text)))
  ELSE CitesOfTok(Head(text)) \o citationMatches(Tail(text))

DefaultItems == Obj(<<Member(ItemsKey, Arr(<<>>))>>)
MaxLearnings == 10

\* array.slice(start, end) with 0 <= start: the elements start .. end-1,
\* counted from 0, as far as the array has them.
sliceAll(array, start, end) == array
slice(array, start, end) == SubSeq(array, start + 1, Min(Len(array), end))

ProcessedGeminiResponse(learnings, urls, citations) ==
  [learnings |-> learnings, urls |-> urls, citations |-> citations]

\* processGeminiResponse(geminiResponseText).  Reading .items of null and
\* calling .replace on a learning that is no string throw a TypeError.
processGeminiResponse(geminiResponseText) ==
  LET r == JSONparse(geminiResponseText)
      responseData == IF r.ok THEN r.val ELSE DefaultItems
      itemList == Get(responseData, ItemsKey)
      learnings ==
        IF itemList.t = "arr"
          THEN Flatten([n \in 1..Len(itemList.v) |-> ItemLearnings(itemList.v[n])])
          ELSE <<>>
      urls ==
        IF itemList.t = "arr"
          THEN Flatten([n \in 1..Len(itemList.v) |-> ItemUrls(itemList.v[n])])
          ELSE <<>>
      sanitized == [n \in 1..Len(learnings) |-> Sanitized(learnings[n].s)]
      sanitizedLearnings == SelectSeq(sanitized, LAMBDA k : k # NoString)
      citations == citationMatches(geminiResponseText)
  IN  IF responseData = Lit(0) THEN Thrown
      ELSE IF \E n \in 1..Len(learnings) : learnings[n].t # "str" THEN Thrown
      ELSE Value(ProcessedGeminiResponse(
                   slice(sanitizedLearnings, 0, MaxLearnings),
                   Unique(urls), citations))

\* The texts the generation capability answers a worker with.
Item(l, u) == <<LBrace, KeyTok(LearningKey), StrTok(l), Comma, KeyTok(UrlKey), StrTok(u), RBrace>>
NumbersItem == <<LBrace, KeyTok(LearningsKey), LBrack, LitTok(1), RBrack, RBrace>>
\* An item whose learnings array holds n strings, the strings 1 and 2 in turn.
ManyLearningsItem(n) ==
  <<LBrace, KeyTok(LearningsKey), LBrack>>
    \o JoinElems([k \in 1..n |-> <<StrTok(1 + (k % 2))>>]) \o <<RBrack, RBrace>>
ItemsText(its) ==
  <<LBrace, KeyTok(ItemsKey), LBrack>> \o JoinElems(its) \o <<RBrack, RBrace>>
GeminiTexts ==
  {ItemsText(<<>>),
   ItemsText(<<Item(1, 1)>>),
   ItemsText(<<Item(1, 1), Item(2, 1)>>),
   ItemsText(<<Item(3, 2), Item(4, 2), Item(5, 1)>>),
   ItemsText(<<NumbersItem>>),
   ItemsText(<<ManyLearningsItem(MaxLearnings + 1)>>),
   ItemsText(<<Item(1, 1), ManyLearningsItem(MaxLearnings)>>),
   <<LitTok(0)>>,
   <<LBrace, RBrace>>,
   <<LBrack, LBrack, LitTok(2), RBrack, RBrack>>,
   <<>>,
   <<Prose, CiteTok(1), Prose, RefTok(3), CiteTok(2), Prose, CiteTok(1)>>,
   <<Prose>> \o ItemsText(<<Item(4, 1)>>) \o <<CiteTok(2)>>,
   <<LBrace, KeyTok(ItemsKey), LBrack, CiteTok(1)>>}

(************************ the calls ****************************************)

InitExtract ==
  /\ PoolIdle
  /\ SerpIdle
  /\ ResearchIdle
  /\ TopIdle
  /\ ExtractIdle
  /\ CacheIdle
  /\ SplitIdle
  /\ ProgressIdle
  /\ GroupIdle

\* What the last extraction left behind is forgotten when the next one starts.
ForgetFeedback ==
  /\ fbFirst' = <<>>
  /\ fbRepaired' = <<>>
  /\ fbRepairs' = 0
  /\ fbOut' = <<>>
  /\ fbPc' = "idle"
ForgetGemini ==
  /\ pgText' = <<>>
  /\ pgOut' = <<>>

\* generateFeedback(...) up to its first await: the query is validated, the
\* cache is looked up, conductResearch is called.
FeedbackCall(queryValid) ==
  /\ fbPc \in {"idle", "settled"}
  /\ nExtractions < MaxExtractions
  /\ nExtractions' = nExtractions + 1
  /\ fbFirst' = <<>>
  /\ fbRepaired' = <<>>
  /\ fbRepairs' = 0
  /\ IF ~queryValid
       THEN /\ fbOut' = Thrown
            /\ fbPc' = "settled"
     ELSE IF feedbackCache # <<>>
       THEN /\ fbOut' = Value(feedbackCache[1])
            /\ fbPc' = "settled"
     ELSE /\ fbOut' = <<>>
          /\ fbPc' = "context"
  /\ ForgetGemini
  /\ UNCHANGED <<feedbackCache, notExtractVars>>

\* conductResearch and analyzePastFeedback are over: a rejection is not
\* caught, otherwise the first generation call is issued.
ContextReturns(threw) ==
  /\ fbPc = "context"
  /\ IF threw
       THEN /\ fbOut' = Thrown
            /\ fbPc' = "settled"
       ELSE /\ fbPc' = "first"
            /\ UNCHANGED fbOut
  /\ UNCHANGED <<feedbackCache, fbFirst, fbRepaired, fbRepairs, pgText, pgOut,
                 nExtractions, notExtractVars>>

\* The academic validation of the response, the cache store and the return.
Finish(feedbackResponse) ==
  /\ fbPc' = "settled"
  /\ IF validateAcademicOutput(feedbackResponse.analysis)
       THEN /\ feedbackCache' = <<feedbackResponse>>
            /\ fbOut' = Value(feedbackResponse)
       ELSE /\ fbOut' = Value(UnableToGenerate)
            /\ UNCHANGED feedbackCache

\* The first generation call is over: the first parse attempt, and on its
\* failure the repair request.
FirstReturns(jsonText, threw) ==
  /\ fbPc = "first"
  /\ IF threw
       THEN /\ fbFirst' = CallThrew
            /\ fbOut' = ApiErrorCaught
            /\ fbPc' = "settled"
            /\ UNCHANGED <<feedbackCache, fbRepairs>>
     ELSE IF SchemaMatches(jsonText)
       THEN /\ fbFirst' = jsonText
            /\ Finish(ParsedFeedback(jsonText))
            /\ UNCHANGED fbRepairs
     ELSE /\ fbFirst' = jsonText
          /\ fbRepairs' = fbRepairs + 1
          /\ fbPc' = "repair"
          /\ UNCHANGED <<feedbackCache, fbOut>>
  /\ UNCHANGED <<fbRepaired, pgText, pgOut, nExtractions, notExtractVars>>

\* The repair request is over: the second parse attempt.
RepairReturns(jsonText, threw) ==
  /\ fbPc = "repair"
  /\ IF threw
       THEN /\ fbRepaired' = CallThrew
            /\ fbOut' = ApiErrorCaught
            /\ fbPc' = "settled"
            /\ UNCHANGED feedbackCache
       ELSE /\ fbRepaired' = jsonText
            /\ Finish(AfterRepair(jsonText))
  /\ UNCHANGED <<fbFirst, fbRepairs, pgText, pgOut, nExtractions, notExtractVars>>

\* A worker hands the answer of its generation call to processGeminiResponse.
ProcessGemini(geminiResponseText) ==
  /\ fbPc \in {"idle", "settled"}
  /\ nExtractions < MaxExtractions
  /\ nExtractions' = nExtractions + 1
  /\ pgText' = geminiResponseText
  /\ pgOut' = processGeminiResponse(geminiResponseText)
  /\ ForgetFeedback
  /\ UNCHANGED <<feedbackCache, notExtractVars>>

NextExtract ==
  \/ \E queryValid \in BOOLEAN : FeedbackCall(queryValid)
  \/ \E threw \in BOOLEAN : ContextReturns(threw)
  \/ \E jsonText \in FeedbackTexts : FirstReturns(jsonText, FALSE)
  \/ FirstReturns(<<>>, TRUE)
  \/ \E jsonText \in FeedbackTexts : RepairReturns(jsonText, FALSE)
  \/ RepairReturns(<<>>, TRUE)
  \/ \E text \in GeminiTexts : ProcessGemini(text)

SpecExtract == InitExtract /\ [][NextExtract]_vars

-----------------------------------------------------------------------------
(***************************************************************************)
(* Properties of Part V (checked under SpecExtract).                       *)
(***************************************************************************)

\* The answers that are valid JSON and match FeedbackResponseSchema, and the
\* structure such an answer stands for.
ValidFeedback(a, n) == FeedbackText(a, n)
ValidAnalyses == {11, 12}
QuestionCounts == {0, 2}
StructureOf(a, n) == FeedbackResponse(a, [k \in 1..n |-> 14])
IsValidFeedback(jsonText) ==
  \E a \in ValidAnalyses, n \in QuestionCounts : jsonText = ValidFeedback(a, n)

\* What generateFeedback returns for a structure: the structure when its
\* analysis passes the academic validation, else the fixed response.
Gated(structure) == IF structure.analysis = 11 THEN structure ELSE UnableToGenerate

\* The answers to a worker that are valid JSON and match GeminiResponse.
ValidGeminiTexts ==
  {ItemsText(<<>>), ItemsText(<<Item(1, 1)>>), ItemsText(<<Item(1, 1), Item(2, 1)>>),
   ItemsText(<<Item(3, 2), Item(4, 2), Item(5, 1)>>)}
GeminiCalled == pgOut # <<>>
FeedbackSettled == fbPc = "settled"

\* The learnings and URLs of the items of a valid answer.
LearningsOf(text) ==
  LET its == Get(JSONparse(text).val, ItemsKey).v
  IN  {Get(its[n], LearningKey).s : n \in 1..Len(its)}
UrlsIn(text) ==
  LET its == Get(JSONparse(text).val, ItemsKey).v
  IN  {Get(its[n], UrlKey).s : n \in 1..Len(its)}

RefsAt(text, i) ==
  IF text[i][1] = "cite" THEN <<text[i][2]>>
  ELSE IF text[i] = StrTok(4) THEN <<7>>
  ELSE IF IsCiteRun(SubSeq(text, i, Len(text))) THEN <<text[i + 2][2]>>
  ELSE <<>>
References(text) == Flatten([i \in 1..Len(text) |-> RefsAt(text, i)])

\* C20: the citations processGeminiResponse returns are the references
\* "[[n]]" of the raw text, in the order they occur, whether the text parsed
\* as JSON or not.
C20_CitationsAreReferences ==
  (GeminiCalled /\ IsValue(pgOut)) => pgOut[2].citations = References(pgText)

\* A text that is no JSON and holds three references, one of them twice: all
\* three are returned in order, and the "[3]" between them is not.
C20_Witness ==
  /\ GeminiCalled
  /\ ~isValidJSON(pgText)
  /\ Includes(pgText, RefTok(3))
  /\ IsValue(pgOut)
  /\ pgOut[2].citations = <<1, 2, 1>>

\* C21: every result processGeminiResponse returns carries at most ten
\* learnings, whatever the response was.
C21_AtMostTenLearnings ==
  (GeminiCalled /\ IsValue(pgOut)) => Len(pgOut[2].learnings) <= MaxLearnings

\* A response of more than ten learnings was processed and ten were returned.
C21_Witness ==
  /\ GeminiCalled /\ IsValue(pgOut)
  /\ pgText = ItemsText(<<ManyLearningsItem(MaxLearnings + 1)>>)
  /\ Len(pgOut[2].learnings) = MaxLearnings
  /\ pgOut[2].learnings[MaxLearnings] = 1

\* C22: requests whose prior learnings differ have different fingerprints, so
\* a sub-query list served from the cache was generated for a request with
\* the learnings of the request it is served to.
C22_HitServesOwnHistory ==
  (serpPc = "returned" /\ serpText = <<<<"hit", 0>>>>)
    => serpComputedFor[CacheKey(serpArgs)].learnings = serpArgs.learnings

\* A request was served the list generated for a request with other learnings.
C22_Witness ==
  /\ serpPc = "returned" /\ serpText = <<<<"hit", 0>>>>
  /\ serpArgs.learnings = <<<<97, 2>>>>
  /\ serpComputedFor[CacheKey(serpArgs)].learnings = <<<<97, 1>>>>

\* C23: a request whose fingerprint could not be computed is treated as a
\* cache miss: it is not served a value that was cached for another request.
C23_KeyFailureIsCacheMiss ==
  (serpPc = "returned" /\ KeyThrows(serpArgs.learnings) /\ serpText = <<<<"hit", 0>>>>)
    => serpComputedFor[CacheKey(serpArgs)] = serpArgs

\* A request whose fingerprinting threw was served, under the fallback key,
\* the list generated for a request for another number of sub-queries.
C23_Witness ==
  /\ serpPc = "returned" /\ serpText = <<<<"hit", 0>>>>
  /\ KeyThrows(serpArgs.learnings)
  /\ serpArgs.numQueries = 2
  /\ serpComputedFor[FallbackKey(serpArgs)].numQueries = 1

-----------------------------------------------------------------------------
(***************************************************************************)
(* Part VI: the fingerprint caches                                         *)
(*                                                                         *)
(* serpQueryCache, reportCache and feedbackCache are LRUCache objects of   *)
(* the lru-cache package, constructed with the max option.  The package is *)
(* taken by its contract: get and set make their key the most recently     *)
(* used one, and a set of a new key into a full cache first drops the      *)
(* least recently used entry.  No time passes between the operations, so   *)
(* the ttl of feedbackCache expires nothing.                               *)
(***************************************************************************)

\* new LRUCache({ max: 50 }), new LRUCache({ max: 20 }), FEEDBACK_CACHE_CONFIG.max
SerpQueryCacheMax == 50
ReportCacheMax == 20
FeedbackCacheMax == 100
Caches == {"serpQueryCache", "reportCache", "feedbackCache"}
configMaxAll100(name) == FeedbackCacheMax
configMax(name) ==
  CASE name = "serpQueryCache" -> SerpQueryCacheMax
    [] name = "reportCache" -> ReportCacheMax
    [] name = "feedbackCache" -> FeedbackCacheMax

MaxCacheOps == 3

KeysOf(entries) == {entries[n][1] : n \in 1..Len(entries)}
Without(entries, key) == SelectSeq(entries, LAMBDA en : en[1] # key)
EntryOf(entries, key) == CHOOSE en \in {entries[n] : n \in 1..Len(entries)} : en[1] = key

\* A use of `key` makes its entry the most recently used one.
TouchNot(entries, key) == entries
Touch(entries, key) == Append(Without(entries, key), EntryOf(entries, key))

\* cache.set(key, value): what it leaves in the cache, and what it evicts.
lruSet(entries, max, key, value) ==
  IF key \in KeysOf(entries) THEN Append(Without(entries, key), <<key, value>>)
  ELSE IF Len(entries) >= max THEN Append(Tail(entries), <<key, value>>)
  ELSE Append(entries, <<key, value>>)
Evicted(entries, max, key) ==
  IF key \notin KeysOf(entries) /\ Len(entries) >= max THEN {Head(entries)[1]} ELSE {}

\* A cache that n distinct keys were set in, one after the other.
Filled(n) == [k \in 1..n |-> <<k, 0>>]

InitCache ==
  /\ PoolIdle
  /\ SerpIdle
  /\ ResearchIdle
  /\ TopIdle
  /\ ExtractIdle
  /\ SplitIdle
  /\ ProgressIdle
  /\ GroupIdle
  /\ lruName \in Caches
  /\ lruMax = configMax(lruName)
  /\ \E n \in {0, lruMax - 1, lruMax} :
       /\ lruEntries = Filled(n)
       /\ lruUsedAt = [k \in 1..n |-> k - n]
  /\ lruOp = <<>>
  /\ lruPrev = <<>>
  /\ lruGot = <<>>
  /\ lruEvicted = {}
  /\ nLruOps = 0

CacheSet(key, value) ==
  /\ nLruOps < MaxCacheOps
  /\ nLruOps' = nLruOps + 1
  /\ lruEntries' = lruSet(lruEntries, lruMax, key, value)
  /\ lruEvicted' = Evicted(lruEntries, lruMax, key)
  /\ lruUsedAt' = [k \in DOMAIN lruUsedAt \cup {key} |->
                     IF k = key THEN nLruOps + 1 ELSE lruUsedAt[k]]
  /\ lruPrev' = lruOp
  /\ lruOp' = <<"set", key, value>>
  /\ lruGot' = <<>>
  /\ UNCHANGED <<lruName, lruMax, notCacheVars>>

CacheGet(key) ==
  /\ nLruOps < MaxCacheOps
  /\ nLruOps' = nLruOps + 1
  /\ IF key \in KeysOf(lruEntries)
       THEN /\ lruGot' = <<EntryOf(lruEntries, key)[2]>>
            /\ lruEntries' = Touch(lruEntries, key)
            /\ lruUsedAt' = [lruUsedAt EXCEPT ![key] = nLruOps + 1]
       ELSE /\ lruGot' = <<>>
            /\ UNCHANGED <<lruEntries, lruUsedAt>>
  /\ lruEvicted' = {}
  /\ lruPrev' = lruOp
  /\ lruOp' = <<"get", key>>
  /\ UNCHANGED <<lruName, lruMax, notCacheVars>>

\* The keys of the operations: two of the oldest entries of a full cache,
\* its newest one, and two that a full cache does not hold.
CacheKeys == {1, 2, lruMax, lruMax + 1, lruMax + 2}
CacheValues == {1, 2}

NextCache ==
  \/ \E key \in CacheKeys, value \in CacheValues : CacheSet(key, value)
  \/ \E key \in CacheKeys : CacheGet(key)

SpecCache == InitCache /\ [][NextCache]_vars

\* C24: a get that follows a set of the same key returns the value set; the
\* cache never holds more entries than its capacity (50 sub-query lists, 20
\* reports, 100 feedback responses); an entry is evicted only by the insertion
\* of a new key into a full cache, and it is the entry that was least recently
\* used, by a set or by a get.
C24_LruCache ==
  /\ lruName = "serpQueryCache" => Len(lruEntries) <= 50
  /\ lruName = "reportCache" => Len(lruEntries) <= 20
  /\ lruName = "feedbackCache" => Len(lruEntries) <= 100
  /\ (Len(lruOp) = 2 /\ Len(lruPrev) = 3 /\ lruPrev[2] = lruOp[2]) => lruGot = <<lruPrev[3]>>
  /\ \A ev \in lruEvicted :
       /\ Len(lruOp) = 3
       /\ Len(lruEntries) = lruMax
       /\ ev \notin KeysOf(lruEntries)
       /\ \A k \in KeysOf(lruEntries) \ {lruOp[2]} : lruUsedAt[k] > lruUsedAt[ev]

\* In a full cache the oldest entry was read and a new key was then inserted:
\* the second oldest entry was evicted and the one that was read is kept.
C24_Witness ==
  /\ Len(lruEntries) = lruMax
  /\ lruPrev = <<"get", 1>>
  /\ lruOp = <<"set", lruMax + 1, 1>>
  /\ lruEvicted = {2}
  /\ 1 \in KeysOf(lruEntries)

-----------------------------------------------------------------------------
(***************************************************************************)
(* Part VII: the text splitters of src/src/ai/text-splitter.ts             *)
(*                                                                         *)
(* A string is a sequence of characters.  RecursiveCharacterTextSplitter,  *)
(* the wrapper SemanticTextSplitter of line 103, TiktokenTextSplitter (its *)
(* constructor only) and the embedding-based SemanticTextSplitter of line  *)
(* 423, with semanticChunking as its caller.                               *)
(***************************************************************************)

MaxChunkSize == 3
MaxText == 4

Whitespace == {" ", "\n", "\r"}
Chars == {"a", ".", " ", "\r"}
Max(a, b) == IF a >= b THEN a ELSE b

\* String.prototype.trim
RECURSIVE trimStart(_)
trimStart(t) == IF t # <<>> /\ Head(t) \in Whitespace THEN trimStart(Tail(t)) ELSE t
RECURSIVE trimEnd(_)
trimEnd(t) ==
  IF t # <<>> /\ t[Len(t)] \in Whitespace THEN trimEnd(SubSeq(t, 1, Len(t) - 1)) ELSE t
trim(t) == trimEnd(trimStart(t))

\* t.split(sep) for a separator that is not empty
RECURSIVE SplitFrom(_, _, _)
SplitFrom(t, sep, cur) ==
  IF t = <<>> THEN <<cur>>
  ELSE IF Len(t) >= Len(sep) /\ SubSeq(t, 1, Len(sep)) = sep
    THEN <<cur>> \o SplitFrom(SubSeq(t, Len(sep) + 1, Len(t)), sep, <<>>)
  ELSE SplitFrom(Tail(t), sep, Append(cur, Head(t)))
split(t, sep) == SplitFrom(t, sep, <<>>)

\* c.replace(/\s+/g, ' ').trim()
RECURSIVE Collapse(_)
Collapse(t) ==
  IF t = <<>> THEN <<>>
  ELSE IF Head(t) \in Whitespace THEN <<" ">> \o Collapse(trimStart(t))
  ELSE <<Head(t)>> \o Collapse(Tail(t))
clean(s) == trim(Collapse(s))

\* text.replace(/\r\n?/g, '\n')
RECURSIVE normalizeNewlines(_)
normalizeNewlines(t) ==
  IF t = <<>> THEN <<>>
  ELSE IF Head(t) = "\r"
    THEN <<"\n">> \o normalizeNewlines(
           IF Len(t) >= 2 /\ t[2] = "\n" THEN SubSeq(t, 3, Len(t)) ELSE Tail(t))
  ELSE <<Head(t)>> \o normalizeNewlines(Tail(t))

NonEmpty(seq) == SelectSeq(seq, LAMBDA s : s # <<>>)

\* params?.separators ?? ['\n\n', '\n', '. ', '.', ', ', ',', ' ', '']
DefaultSeparators ==
  << <<"\n", "\n">>, <<"\n">>, <<".", " ">>, <<".">>, <<",", " ">>, <<",">>, <<" ">>, <<>> >>

\* The hard cut: pieces of `target` characters, `step` apart.
RECURSIVE HardCutWhole(_, _, _, _)
HardCutWhole(trimmed, i, target, step) ==
  IF i >= Len(trimmed) THEN <<>>
  ELSE NonEmpty(<<trim(slice(trimmed, i, Len(trimmed)))>>)
         \o HardCutWhole(trimmed, i + step, target, step)
RECURSIVE HardCut(_, _, _, _)
HardCut(trimmed, i, target, step) ==
  IF i >= Len(trimmed) THEN <<>>
  ELSE NonEmpty(<<trim(slice(trimmed, i, Min(i + target, Len(trimmed))))>>)
         \o HardCut(trimmed, i + step, target, step)

\* splitRecursive(t, sepIdx): the chunks it pushes, in order.  MergeParts is
\* its loop over the parts, with the buffer it has built so far.
RECURSIVE splitRecursive(_, _, _)
RECURSIVE MergeParts(_, _, _, _)
MergeParts(parts, buffer, sepIdx, p) ==
  IF parts = <<>> THEN NonEmpty(<<buffer>>)
  ELSE LET part == Head(parts)
           candidate == IF buffer # <<>> THEN trim(buffer \o <<" ">> \o part) ELSE part
       IN  IF Len(candidate) <= p.chunkSize
             THEN MergeParts(Tail(parts), candidate, sepIdx, p)
           ELSE NonEmpty(<<buffer>>)
                  \o (IF Len(part) > p.chunkSize
                        THEN splitRecursive(part, sepIdx + 1, p)
                               \o MergeParts(Tail(parts), <<>>, sepIdx, p)
                        ELSE MergeParts(Tail(parts), part, sepIdx, p))
splitRecursive(t, sepIdx, p) ==
  LET trimmed == trim(t)
      target == p.chunkSize
      step == Max(1, target - p.chunkOverlap)
  IN  IF trimmed = <<>> THEN <<>>
      ELSE IF Len(trimmed) <= target THEN <<trimmed>>
      ELSE IF sepIdx >= Len(p.separators) THEN HardCut(trimmed, 0, target, step)
      ELSE IF p.separators[sepIdx + 1] = <<>> THEN HardCut(trimmed, 0, target, step)
      ELSE LET sep == p.separators[sepIdx + 1]
               pieces == split(trimmed, sep)
               parts == NonEmpty([n \in 1..Len(pieces) |-> trim(pieces[n])])
           IN  MergeParts(parts, <<>>, sepIdx, p)

\* RecursiveCharacterTextSplitter.splitText
splitText(text, p) ==
  IF text = <<>> THEN <<>>
  ELSE LET chunks == splitRecursive(text, 0, p)
       IN  NonEmpty([n \in 1..Len(chunks) |-> clean(chunks[n])])

\* normalized.split(/(?<=[.!?])\s+/g): a cut is a run of whitespace that
\* follows a sentence end.
RECURSIVE SentencesFrom(_, _)
SentencesFrom(t, cur) ==
  IF t = <<>> THEN <<cur>>
  ELSE IF cur # <<>> /\ cur[Len(cur)] \in {".", "!", "?"} /\ Head(t) \in Whitespace
    THEN <<cur>> \o SentencesFrom(trimStart(t), <<>>)
  ELSE SentencesFrom(Tail(t), Append(cur, Head(t)))
Sentences(normalized) ==
  LET pieces == SentencesFrom(normalized, <<>>)
  IN  NonEmpty([n \in 1..Len(pieces) |-> clean(pieces[n])])

\* tokenCount(s): the tokenizer is taken to give one token to a word and one
\* to a punctuation mark.
RECURSIVE tokenCount(_)
tokenCount(s) ==
  IF s = <<>> THEN 0
  ELSE IF Head(s) \in Whitespace THEN tokenCount(Tail(s))
  ELSE IF Head(s) = "a" /\ Len(s) >= 2 /\ s[2] = "a" THEN tokenCount(Tail(s))
  ELSE 1 + tokenCount(Tail(s))

\* How the embedding capability behaves in one splitText call: it throws, it
\* returns no vector, it returns vectors that are close to each other, or
\* vectors that are orthogonal to their neighbours.
EmbedModes == {"throws", "none", "similar", "unrelated"}
generateTextEmbedding(mode, n) ==
  CASE mode = "none" -> <<>>
    [] mode = "similar" -> <<2, n % 2>>
    [] OTHER -> <<n % 2, (n + 1) % 2>>

\* cosineSimilarity(centroid, nextEmb) >= 0.65, on vectors of integers.
Dot(a, b) == a[1] * b[1] + a[2] * b[2]
SimilarEnough(a, b) ==
  /\ a # <<>> /\ b # <<>>
  /\ Dot(a, b) >= 0
  /\ 400 * Dot(a, b) * Dot(a, b) >= 169 * Dot(a, a) * Dot(b, b)

\* The inner loop: grow `current` from sentence i on.  The centroid is kept
\* multiplied by m, which leaves its direction to the average of the code.
RECURSIVE Grow(_, _, _, _, _, _, _)
Grow(sentences, embs, i, current, centroid, m, chunkSize) ==
  IF i > Len(sentences) THEN <<current, i>>
  ELSE LET merged == trim(current \o <<" ">> \o sentences[i])
           withinBudget == tokenCount(merged) <= chunkSize
       IN  IF withinBudget /\ SimilarEnough(centroid, embs[i])
             THEN Grow(sentences, embs, i + 1, merged,
                       <<centroid[1] + m * embs[i][1], centroid[2] + m * embs[i][2]>>,
                       2 * m, chunkSize)
           ELSE <<current, i>>

\* The outer loop, from sentence i on: one chunk, then the step back by one
\* sentence when an overlap is configured.
RECURSIVE SemanticChunks(_, _, _, _)
SemanticChunks(sentences, embs, i, p) ==
  IF i > Len(sentences) THEN <<>>
  ELSE LET g == Grow(sentences, embs, i + 1, sentences[i], embs[i], 1, p.chunkSize)
           j == IF g[2] <= Len(sentences) /\ p.chunkOverlap > 0
                  THEN Max(i + 1, g[2] - 1) ELSE g[2]
       IN  <<g[1]>> \o SemanticChunks(sentences, embs, j, p)

\* new RecursiveCharacterTextSplitter(params): the constructor throws for
\* chunkOverlap >= chunkSize.
ConstructorThrows(p) == p.chunkOverlap >= p.chunkSize

\* SemanticTextSplitter.splitText (line 456): the promise it returns.
FallbackToStructural(text, p, mode) ==
  LET params == [p EXCEPT !.separators = DefaultSeparators]
  IN  IF ConstructorThrows(params) THEN Thrown
      ELSE Value(splitText(normalizeNewlines(text), params))
semanticSplitText(text, p, mode) ==
  LET normalized == normalizeNewlines(text)
      sentences == Sentences(normalized)
      embs == [n \in 1..Len(sentences) |-> generateTextEmbedding(mode, n)]
      chunks == SemanticChunks(sentences, embs, 1, p)
  IN  IF trim(text) = <<>> THEN Value(<<>>)
      ELSE IF Len(sentences) <= 1 THEN FallbackToStructural(text, p, mode)
      ELSE IF mode = "throws" THEN Thrown
      ELSE Value(NonEmpty([n \in 1..Len(chunks) |-> clean(chunks[n])]))

\* semanticChunking(text, splitter): catch (error) { return [text]; }
semanticChunking(text, p, mode) ==
  LET r == semanticSplitText(text, p, mode)
  IN  IF IsThrown(r) THEN Value(<<text>>) ELSE r

\* The constructors: RecursiveCharacterTextSplitter and TiktokenTextSplitter
\* compare the overlap with the size, the wrapper constructs a
\* RecursiveCharacterTextSplitter, the constructor of line 430 compares nothing.
Variants == {"recursive", "wrapper", "tiktoken", "semantic"}
constructor(variant, p) ==
  IF variant = "semantic" THEN "constructed"
  ELSE IF ConstructorThrows(p) THEN "threw"
  ELSE "constructed"

SeparatorLists == {DefaultSeparators, <<>>, << <<".">>, <<" ">> >>}
RECURSIVE StringsOf(_)
StringsOf(n) ==
  IF n = 0 THEN {<<>>}
  ELSE StringsOf(n - 1)
         \cup {Append(t, c) : t \in {u \in StringsOf(n - 1) : Len(u) = n - 1}, c \in Chars}
Texts == StringsOf(MaxText)

InitSplit ==
  /\ PoolIdle
  /\ SerpIdle
  /\ ResearchIdle
  /\ TopIdle
  /\ ExtractIdle
  /\ CacheIdle
  /\ ProgressIdle
  /\ GroupIdle
  /\ spVariant = ""
  /\ spParams = <<>>
  /\ spState = "none"
  /\ spText = <<>>
  /\ spEmbed = ""
  /\ spVia = ""
  /\ spOut = <<>>

\* new <variant>({ chunkSize, chunkOverlap, separators })
Construct(variant, chunkSize, chunkOverlap, separators) ==
  /\ spState = "none"
  /\ variant \in {"tiktoken", "semantic"} => separators = DefaultSeparators
  /\ LET p == [chunkSize |-> chunkSize, chunkOverlap |-> chunkOverlap,
               separators |-> separators]
     IN  /\ spParams' = p
         /\ spState' = constructor(variant, p)
  /\ spVariant' = variant
  /\ UNCHANGED <<spText, spEmbed, spVia, spOut, notSplitVars>>

\* splitter.splitText(text) of the two synchronous splitters.
SplitText(text) ==
  /\ spState = "constructed"
  /\ spVariant \in {"recursive", "wrapper"}
  /\ spOut = <<>>
  /\ spText' = text
  /\ spOut' = Value(splitText(IF spVariant = "wrapper" THEN normalizeNewlines(text) ELSE text,
                              spParams))
  /\ spVia' = "splitText"
  /\ UNCHANGED <<spVariant, spParams, spState, spEmbed, notSplitVars>>

\* await splitter.splitText(text) of the embedding-based splitter, called
\* directly or by semanticChunking(text, splitter); `mode` is what the
\* embedding capability does in the call.
SemanticSplitText(text, mode, via) ==
  /\ spState = "constructed"
  /\ spVariant = "semantic"
  /\ spOut = <<>>
  /\ spText' = text
  /\ spEmbed' = mode
  /\ spVia' = via
  /\ spOut' = IF via = "semanticChunking" THEN semanticChunking(text, spParams, mode)
              ELSE semanticSplitText(text, spParams, mode)
  /\ UNCHANGED <<spVariant, spParams, spState, notSplitVars>>

NextSplit ==
  \/ \E variant \in Variants, chunkSize \in 1..MaxChunkSize,
        chunkOverlap \in 0..MaxChunkSize, separators \in SeparatorLists :
       Construct(variant, chunkSize, chunkOverlap, separators)
  \/ \E text \in Texts : SplitText(text)
  \/ \E text \in Texts, mode \in EmbedModes, via \in {"splitText", "semanticChunking"} :
       SemanticSplitText(text, mode, via)

SpecSplit == InitSplit /\ [][NextSplit]_vars

\* C25: with 0 <= chunkOverlap < chunkSize, whatever the separators and the
\* text, RecursiveCharacterTextSplitter.splitText returns no chunk longer than
\* chunkSize characters and no empty chunk.
C25_ChunksWithinSize ==
  (spVariant = "recursive" /\ IsValue(spOut)) =>
    \A n \in 1..Len(spOut[2]) :
      /\ Len(spOut[2][n]) <= spParams.chunkSize
      /\ spOut[2][n] # <<>>

\* A text without a usable separator was cut into pieces of chunkSize
\* characters that overlap.
C25_Witness ==
  /\ spVariant = "recursive" /\ IsValue(spOut)
  /\ spParams.chunkSize = 3 /\ spParams.chunkOverlap = 2
  /\ spText = <<"a", "a", "a", "a">>
  /\ spOut[2] = << <<"a", "a", "a">>, <<"a", "a", "a">>, <<"a", "a">>, <<"a">> >>

\* C26: no splitter of any variant exists with chunkOverlap >= chunkSize: its
\* construction has failed.
C26_OverlapBelowSize ==
  spState = "constructed" => spParams.chunkOverlap < spParams.chunkSize

\* An embedding-based splitter with chunkOverlap >= chunkSize was constructed
\* and has answered a splitText call.
C26_Witness ==
  /\ spVariant = "semantic" /\ spState = "constructed"
  /\ spParams.chunkOverlap >= spParams.chunkSize
  /\ spVia = "splitText" /\ IsValue(spOut) /\ Len(spOut[2]) = 2

\* What the structural splitter returns for the text of the last call.
StructuralChunks ==
  splitText(normalizeNewlines(spText), [spParams EXCEPT !.separators = DefaultSeparators])

\* C27: when the embedding capability returned no vector or threw, the
\* semantic splitter (configured with chunkOverlap < chunkSize) has not failed
\* its caller and has returned the chunks of the structural splitter.
C27_FallsBackToStructural ==
  (/\ spVariant = "semantic" /\ spOut # <<>>
   /\ spEmbed \in {"none", "throws"}
   /\ spParams.chunkOverlap < spParams.chunkSize)
    => spOut = Value(StructuralChunks)

\* Without vectors the splitter returned one chunk per sentence where the
\* structural splitter returns the two words as one chunk.
C27_Witness ==
  /\ spVariant = "semantic" /\ spVia = "splitText" /\ spEmbed = "none"
  /\ spParams.chunkSize = 3 /\ spParams.chunkOverlap = 0
  /\ spText = <<"a", ".", " ", "a">>
  /\ spOut = Value(<< <<"a", ".">>, <<"a">> >>)
  /\ StructuralChunks = << <<"a", " ", "a">> >>

-----------------------------------------------------------------------------
(***************************************************************************)
(* Part VIII: ProgressManager.updateProgress of src/unnamed/part_000       *)
(*                                                                         *)
(* A snapshot is a value: every call passes a snapshot object of its own,  *)
(* as deepResearch does (part_001, line 761).  Times are in milliseconds.  *)
(* The tracker starts after construction, or after the calls of a caller   *)
(* that reported one more completed query every second.                    *)
(***************************************************************************)

\* private readonly maxWindow = 20
maxWindow == 20

MaxUpdates == 3

Snapshot(completedQueries, currentDepth, currentBreadth, currentQuery, totalQueries) ==
  [completedQueries |-> completedQueries, currentDepth |-> currentDepth,
   currentBreadth |-> currentBreadth, currentQuery |-> currentQuery,
   totalQueries |-> totalQueries]
Sample(t, c) == [t |-> t, completed |-> c]

\* The test of the early return: no meaningful change since the last draw.
NoChangeButQuery(last, progress) ==
  /\ last # <<>>
  /\ last.completedQueries = progress.completedQueries
  /\ last.currentDepth = progress.currentDepth
  /\ last.currentBreadth = progress.currentBreadth
NoChange(last, progress) ==
  /\ last # <<>>
  /\ last.completedQueries = progress.completedQueries
  /\ last.currentDepth = progress.currentDepth
  /\ last.currentBreadth = progress.currentBreadth
  /\ last.currentQuery = progress.currentQuery

\* this.rateWindow.push(...); if (length > maxWindow) this.rateWindow.shift()
pop(window) == SubSeq(window, 1, Len(window) - 1)
shift(window) == Tail(window)
Pushed(window, sample) ==
  LET w == Append(window, sample)
  IN  IF Len(w) > maxWindow THEN shift(w) ELSE w

\* dCompleted and dTimeSec (here in ms: Math.max(0.001, d / 1000) s is
\* Math.max(1, d) ms) between the first and the last sample of the window.
RateOf(window) ==
  LET first == window[1]
      last == window[Len(window)]
  IN  <<Max(0, last.completed - first.completed), Max(1, last.t - first.t)>>

\* Math.round(num / den) for num >= 0 and den > 0
Round(num, den) == (2 * num + den) \div (2 * den)

\* etaStr: 'ETA: —' is <<"unknown">>, `ETA: ${mm}m ${ss}s` is <<"eta", etaSec>>.
HasRate(window, progress) == Len(window) >= 2 /\ progress.totalQueries > 0
EtaOf(window, progress) ==
  IF HasRate(window, progress)
    THEN LET r == RateOf(window)
             remaining == Max(0, progress.totalQueries - progress.completedQueries)
         IN  IF r[1] > 0 THEN <<"eta", Round(remaining * r[2], 1000 * r[1])>>
             ELSE <<"eta", 0>>
  ELSE <<"unknown">>

\* The window after n accepted calls, one a second, of a caller that
\* completes one query a second.
Steady(n) == [k \in 1..n |-> Sample(1000 * k, k)]
SteadyTotal == 30
SteadySnapshot(n) == Snapshot(n, 2, 2, 1, SteadyTotal)

InitProgress ==
  /\ PoolIdle
  /\ SerpIdle
  /\ ResearchIdle
  /\ TopIdle
  /\ ExtractIdle
  /\ CacheIdle
  /\ SplitIdle
  /\ GroupIdle
  /\ initialized \in BOOLEAN
  /\ \E n \in {0, 1, maxWindow - 1, maxWindow} :
       /\ initialized = FALSE => n = 0
       /\ rateWindow = Steady(n)
       /\ accepted = Steady(n)
       /\ clock = 1000 * n
       /\ redraws = n
       /\ lastProgress = IF n = 0 THEN <<>> ELSE SteadySnapshot(n)
       /\ etaStr = IF n = 0 THEN <<>> ELSE EtaOf(Steady(n), SteadySnapshot(n))
       /\ rateUsed = IF n >= 2 THEN RateOf(Steady(n)) ELSE <<>>
  /\ pmCall = <<>>
  /\ pmBefore = <<>>
  /\ nUpdates = 0

\* updateProgress(progress), dt ms after the call before it.
updateProgress(progress, dt) ==
  /\ nUpdates < MaxUpdates
  /\ nUpdates' = nUpdates + 1
  /\ clock' = clock + dt
  /\ pmCall' = progress
  /\ pmBefore' = [lastProgress |-> lastProgress, rateWindow |-> rateWindow,
                  redraws |-> redraws, etaStr |-> etaStr]
  /\ IF ~initialized \/ NoChange(lastProgress, progress)
       THEN UNCHANGED <<lastProgress, rateWindow, etaStr, redraws, accepted, rateUsed>>
       ELSE LET now == clock + dt
                sample == Sample(now, progress.completedQueries)
                window == Pushed(rateWindow, sample)
            IN  /\ lastProgress' = progress
                /\ rateWindow' = window
                /\ accepted' = Append(accepted, sample)
                /\ etaStr' = EtaOf(window, progress)
                /\ rateUsed' = IF HasRate(window, progress) THEN RateOf(window) ELSE <<>>
                /\ redraws' = redraws + 1
  /\ UNCHANGED <<initialized, notProgressVars>>

\* The snapshots a caller passes: the one it passed last, or that one with one
\* field changed.
BaseSnapshot == IF lastProgress = <<>> THEN Snapshot(0, 2, 2, 1, SteadyTotal) ELSE lastProgress
Changes ==
  {"none", "completed+1", "completed-1", "depth", "breadth", "query", "total"}
Changed(s, change) ==
  CASE change = "completed+1" -> [s EXCEPT !.completedQueries = @ + 1]
    [] change = "completed-1" -> [s EXCEPT !.completedQueries = Max(0, @ - 1)]
    [] change = "depth" -> [s EXCEPT !.currentDepth = 3 - @]
    [] change = "breadth" -> [s EXCEPT !.currentBreadth = 3 - @]
    [] change = "query" -> [s EXCEPT !.currentQuery = 3 - @]
    [] change = "total" -> [s EXCEPT !.totalQueries = SteadyTotal - @]
    [] OTHER -> s
Delays == {0, 1000}

NextProgress ==
  \E change \in Changes, dt \in Delays :
    updateProgress(Changed(BaseSnapshot, change), dt)

SpecProgress == InitProgress /\ [][NextProgress]_vars

\* The oldest and the newest of the samples that should be retained: the last
\* 20 that were pushed.
OldestRetained == accepted[Max(1, Len(accepted) - 19)]
NewestRetained == accepted[Len(accepted)]

\* C28: the window holds at most 20 samples, they are the most recent ones in
\* arrival order, and the rate is computed between the oldest and the newest
\* of them.
C28_WindowIsRecent ==
  /\ Len(rateWindow) <= 20
  /\ rateWindow = SubSeq(accepted, Max(1, Len(accepted) - 19), Len(accepted))
  /\ rateUsed # <<>> =>
       rateUsed = <<Max(0, NewestRetained.completed - OldestRetained.completed),
                    Max(1, NewestRetained.t - OldestRetained.t)>>

\* 22 samples have arrived, the last two by two calls, and the rate was
\* computed over the 20 that are retained.
C28_Witness ==
  /\ Len(accepted) = 22
  /\ Len(rateWindow) = 20
  /\ rateWindow[1] = Sample(3000, 3)
  /\ rateUsed = <<19, 19000>>

\* The remaining queries of the snapshot that was drawn last.
Remaining == Max(0, lastProgress.totalQueries - lastProgress.completedQueries)

\* C29: the ETA that is drawn is remaining / rate, never negative, when a
\* rate was computed and is positive, and it is "unknown" otherwise.
C29_EtaUnknownWithoutRate ==
  etaStr # <<>> =>
    IF rateUsed # <<>> /\ rateUsed[1] > 0
      THEN /\ etaStr = <<"eta", Round(Remaining * rateUsed[2], 1000 * rateUsed[1])>>
           /\ etaStr[2] >= 0
      ELSE etaStr = <<"unknown">>

\* No query was completed between the oldest and the newest sample, queries
\* remain, and the ETA drawn is 0m 0s.
C29_Witness ==
  /\ rateUsed # <<>> /\ rateUsed[1] = 0
  /\ Remaining > 0
  /\ etaStr = <<"eta", 0>>

\* The four dimensions that updateProgress tracks.
SameTracked(a, b) ==
  /\ a.completedQueries = b.completedQueries
  /\ a.currentDepth = b.currentDepth
  /\ a.currentBreadth = b.currentBreadth
  /\ a.currentQuery = b.currentQuery

\* C30: a call whose snapshot equals the last accepted one in every tracked
\* dimension has left the last accepted snapshot, the window and what is
\* drawn as they were; any other call to an initialized tracker was accepted:
\* its snapshot is the last accepted one, its sample is the newest of the
\* window, and the display was redrawn.
C30_RedundantSuppressed ==
  pmCall # <<>> =>
    IF pmBefore.lastProgress # <<>> /\ SameTracked(pmBefore.lastProgress, pmCall)
      THEN /\ lastProgress = pmBefore.lastProgress
           /\ rateWindow = pmBefore.rateWindow
           /\ redraws = pmBefore.redraws
           /\ etaStr = pmBefore.etaStr
      ELSE initialized =>
             /\ lastProgress = pmCall
             /\ rateWindow[Len(rateWindow)] = Sample(clock, pmCall.completedQueries)
             /\ redraws = pmBefore.redraws + 1

\* After an accepted call the same snapshot was passed again a second later
\* and was suppressed.
C30_Witness ==
  /\ initialized /\ nUpdates = 2
  /\ pmCall = pmBefore.lastProgress
  /\ redraws = pmBefore.redraws
  /\ rateWindow = pmBefore.rateWindow
  /\ Len(rateWindow) = 20
  /\ clock > rateWindow[Len(rateWindow)].t

-----------------------------------------------------------------------------
(***************************************************************************)
(* A generation call that never returns (Part III).                        *)
(*                                                                         *)
(* generateContentInternal awaits ai.models.generateContent(request) and   *)
(* nothing else: no timer races the call and nothing retries it.  A call   *)
(* the provider never answers therefore has no step of its own in the      *)
(* program; the only way its worker goes on is CallReturns.                *)
(***************************************************************************)

\* The call the provider never answers: the generation call of the first
\* worker of the top-level invocation.
Stalled == <<<<>>, 1>>

\* The completions the environment owes: every pending call except the
\* stalled one is answered or fails.
NextAnswered ==
  \/ DeepResearchEnter
  \/ \E p \in Paths : \E n \in 0..MaxBreadth : QueriesReturn(p, n)
  \/ \E p \in Paths : \E k \in 1..MaxBreadth : \E out \in Outcomes :
       <<p, k>> # Stalled /\ CallReturns(p, k, out)

SpecResearchStall == SpecResearch /\ WF_vars(NextAnswered)

StalledCalling ==
  /\ <<>> \in DOMAIN tasks
  /\ Root.pc = "dispatched"
  /\ Len(Root.w) >= Stalled[2]
  /\ Root.w[Stalled[2]].st = "calling"

StalledSettled ==
  /\ <<>> \in DOMAIN tasks
  /\ Len(Root.w) >= Stalled[2]
  /\ Root.w[Stalled[2]].st = "fulfilled"

-----------------------------------------------------------------------------
(***************************************************************************)
(* Greedy scheduling and termination of runWithConcurrency (Part I).       *)
(***************************************************************************)

\* The items the loop of next() has not taken yet.
Pending == {i \in 0..(Len(items) - 1) : i >= index}

\* C32: in every state after a scheduling step of runWithConcurrency (the
\* initial call of next() or the call in a worker's finally callback), either
\* exactly limit workers are in flight or every item has been taken by the
\* loop (started, or skipped when undefined); no item is pending while the
\* in-flight count is below the limit.
C32_GreedyScheduling ==
  poolPc = "called" =>
    /\ Cardinality(Unfinished) = limit \/ index = Len(items)
    /\ Pending # {} => inFlight = limit

\* Witness of C32: a worker has finished, its finally callback has started the
\* next item, the slots are full again and an item is still pending.
C32_Witness ==
  /\ poolPc = "called"
  /\ \E i \in 0..(Len(items) - 1) : wk[i + 1] \in {"doneOk", "doneErr"}
  /\ Cardinality(Running) = limit
  /\ Pending # {}

\* Every step of the call that is enabled is eventually taken: a started
\* worker settles, and the callbacks of a settled promise run.  (Every step
\* changes a worker's state or the position of the call.)
SpecPoolFair == SpecPool /\ WF_<<wk, poolPc>>(NextPool)

\* A worker's promise has rejected.
SomeWorkerFailed ==
  \E i \in 0..(Len(items) - 1) : wk[i + 1] \in {"rejected", "finallyErr", "doneErr"}

\* C34: for every finite item list (the empty list and lists with undefined
\* entries included) and every limit >= 1, a runWithConcurrency call whose
\* started workers all settle successfully eventually resolves.
C34_EventuallyResolves == <>(promise = "resolved" \/ SomeWorkerFailed)

\* Every item has been taken, nothing is in flight, no worker failed, and the
\* call is still pending: the last items taken were undefined ones.
C34_Witness ==
  /\ poolPc = "called"
  /\ index = Len(items)
  /\ inFlight = 0
  /\ ~SomeWorkerFailed
  /\ promise = "pending"
  /\ items[Len(items)] = Undefined

-----------------------------------------------------------------------------
(***************************************************************************)
(* Sibling workers of one invocation (Part III, checked under              *)
(* SpecResearch).                                                          *)
(***************************************************************************)

\* The nested invocations the workers of task p are waiting for.
ChildrenOf(p) == {k \in 1..Len(tasks[p].w) : Append(p, k) \in DOMAIN tasks}

\* C33: sibling workers of one task never observe each other's findings: the
\* nested invocation a worker starts is called with the learnings and visited
\* sources its task was called with, extended by that worker's own findings
\* only, whatever its siblings have extracted or returned in the meantime and
\* in whatever order their calls were answered; and a task has aggregated
\* (returned past its base cases) only when all its workers have resolved.
C33_SiblingsIsolated ==
  \A p \in DOMAIN tasks :
    LET t == tasks[p]
    IN  /\ \A k \in ChildrenOf(p) :
             /\ tasks[Append(p, k)].learnings =
                  t.learnings \o processSerpResult(FirecrawlData)
             /\ tasks[Append(p, k)].visitedUrls =
                  t.visitedUrls \o UrlsOf(FirecrawlData)
        /\ (t.pc = "returned" /\ ~t.base) =>
             \A k \in 1..Len(t.w) : t.w[k].st = "fulfilled"

\* Two siblings are both waiting for their nested invocations, and the
\* response the first one read carried a learning and a source.
C33_Witness ==
  /\ <<>> \in DOMAIN tasks
  /\ Root.pc = "dispatched"
  /\ Cardinality(ChildrenOf(<<>>)) >= 2
  /\ \E k \in ChildrenOf(<<>>) : geminiResult(Root.serpQueries[k]) # EmptyResult

\* C35: in every progress snapshot a task holds (and so in every one it
\* emits: onProgress and reportProgress are handed the snapshot just updated),
\* 0 <= completedQueries <= totalQueries = breadth * depth, for every depth
\* and breadth >= 1 and every mix of succeeding, failing and recursing workers.
C35_CompletedWithinTotal ==
  \A p \in DOMAIN tasks :
    LET t == tasks[p]
    IN  /\ 0 <= t.completedQueries
        /\ (t.depth >= 1 /\ t.breadth >= 1) => t.completedQueries <= TotalQueries(t)

\* An invocation of depth 2 and breadth 2 whose workers both recursed has
\* returned with completedQueries equal to totalQueries.
C35_Witness ==
  /\ <<>> \in DOMAIN tasks
  /\ Root.pc = "returned"
  /\ Root.depth = 2
  /\ Root.breadth = 2
  /\ Len(Root.w) = Root.breadth
  /\ \A k \in 1..Len(Root.w) : Root.w[k].nested
  /\ Root.completedQueries = TotalQueries(Root)

-----------------------------------------------------------------------------
(***************************************************************************)
(* The sub-query cache of generateSerpQueries (Part II, checked under      *)
(* SpecSerp).                                                              *)
(***************************************************************************)

\* The call returned from the cache, without a generation call.
SerpHit == serpPc = "returned" /\ serpText = <<<<"hit", 0>>>>

\* C36: generateSerpQueries stores under the call's fingerprint whatever it
\* returns on its normal path, the empty list of a failed or unparseable
\* generation included; a later call with a fingerprint that has a stored
\* list, empty or not, returns that list and issues no generation call (a
\* generation call is only ever pending for a fingerprint with no entry).
C36_ReturnedListIsCached ==
  /\ serpPc = "returned" =>
       /\ CacheKey(serpArgs) \in DOMAIN serpQueryCache
       /\ serpQueryCache[CacheKey(serpArgs)] = serpOut
  /\ serpPc = "awaiting" => CacheKey(serpArgs) \notin DOMAIN serpQueryCache

\* A call was served the empty list from the cache.
C36_Witness ==
  /\ SerpHit
  /\ serpOut = <<>>
  /\ serpComputedFor[CacheKey(serpArgs)] = serpArgs

-----------------------------------------------------------------------------
(***************************************************************************)
(* The caches of the deepResearch.run handler (Part IV, checked under      *)
(* SpecTop).                                                               *)
(***************************************************************************)

\* The current top-level call is a request to the handler.
HandlerCall == topPc # "idle" /\ topCall.caller = "handler"

\* C37: the handler stores a result in its cache only when research and the
\* report completed without an exception: after an error response the
\* request's key has no entry (so that an identical request runs the research
\* again), research and report calls are only ever pending for a request whose
\* key has no entry, and every other settled request has received the entry
\* stored under its key.
C37_OnlySuccessIsCached ==
  HandlerCall =>
    /\ (topPc = "settled" /\ IsThrown(topResult)) =>
         HandlerKey(topCall) \notin DOMAIN deepResearchCache
    /\ topPc \in {"deepResearch", "report", "handlerReport"} =>
         HandlerKey(topCall) \notin DOMAIN deepResearchCache
    /\ (topPc = "settled" /\ ~IsThrown(topResult)) =>
         /\ HandlerKey(topCall) \in DOMAIN deepResearchCache
         /\ topOut = Value(deepResearchCache[HandlerKey(topCall)])

\* The second request of a run has been answered with the error response, and
\* its key has no entry.
C37_Witness ==
  /\ HandlerCall
  /\ topPc = "settled"
  /\ IsThrown(topResult)
  /\ nCalls = 2
  /\ HandlerKey(topCall) \notin DOMAIN deepResearchCache

\* A request that missed the handler's cache and whose research and report
\* completed.
HandlerMissSettled == HandlerCall /\ topPc = "settled" /\ IsValue(topResult)

\* C38 as stated: within one request that misses the handler's cache, the
\* report synthesis steps (outline, sections, summary, title) are executed
\* exactly once.
C38_Original_SynthesisExactlyOnce ==
  HandlerMissSettled => topSynth = Len(Helpers)

\* C38 amended: within one request that misses the handler's cache and
\* completes, each synthesis step is executed at most once: once, or not at
\* all when research()'s own writeFinalReport was already answered from the
\* report cache (an earlier call left a report for the same fingerprint);
\* either way the handler's writeFinalReport is answered from the report cache
\* and the handler returns the report text stored there.
C38_SynthesisAtMostOnce ==
  HandlerMissSettled =>
    /\ topSynth \in {0, Len(Helpers)}
    /\ topSynth = 0 => nCalls >= 2
    /\ ReportKey(topCall.query, topResult[2]) \in DOMAIN reportCache
    /\ topOut[2].text = reportCache[ReportKey(topCall.query, topResult[2])]

\* A request that missed the handler's cache has completed after one synthesis.
C38_Witness ==
  /\ HandlerMissSettled
  /\ topSynth = Len(Helpers)
  /\ topOut[2].text = reportCache[ReportKey(topCall.query, topResult[2])]

-----------------------------------------------------------------------------
(***************************************************************************)
(* Part IX: the grouping loop of SemanticTextSplitter.splitText            *)
(*                                                                         *)
(* The loop of lines 480-520, one pass of the outer loop per step.  The    *)
(* sentences are the non-empty pieces the segmentation left (at least two, *)
(* fewer go to the structural splitter); how many of the following         *)
(* sentences the inner loop accepts is the outcome of its budget and       *)
(* similarity tests and is drawn freely here (Part VII computes it).       *)
(***************************************************************************)

MaxSentences == 4

\* i = Math.max(start + 1, i - 1)
stepBackUnguarded(start, i) == i - 1
stepBack(start, i) == Max(start + 1, i - 1)

InitGroup ==
  /\ PoolIdle
  /\ SerpIdle
  /\ ResearchIdle
  /\ TopIdle
  /\ ExtractIdle
  /\ CacheIdle
  /\ SplitIdle
  /\ ProgressIdle
  /\ grpN \in 2..MaxSentences
  /\ grpOverlap \in 0..MaxChunkSize
  /\ grpI = 0
  /\ grpStarts = <<>>
  /\ grpEnds = <<>>
  /\ grpPc = "loop"

\* One pass of the outer loop: the chunk starts at sentence i, the inner loop
\* takes the next `merged` sentences and stops at a rejected sentence or at
\* the end, the chunk is pushed, and with an overlap configured i steps back.
\* (No run of the loop pushes more chunks than there are sentences.)
OuterPass(merged) ==
  /\ grpPc = "loop"
  /\ grpI < grpN
  /\ Len(grpStarts) <= MaxSentences
  /\ LET start == grpI
         i == start + 1 + merged
     IN  /\ i <= grpN
         /\ grpStarts' = Append(grpStarts, start)
         /\ grpEnds' = Append(grpEnds, i)
         /\ grpI' = IF i < grpN /\ grpOverlap > 0 THEN stepBack(start, i) ELSE i
  /\ UNCHANGED <<grpN, grpOverlap, grpPc, notGroupVars>>

\* while (i < sentences.length) fails: return chunks.map(...).filter(Boolean)
LoopExit ==
  /\ grpPc = "loop"
  /\ grpI >= grpN
  /\ grpPc' = "returned"
  /\ UNCHANGED <<grpN, grpOverlap, grpI, grpStarts, grpEnds, notGroupVars>>

NextGroup ==
  \/ \E merged \in 0..(MaxSentences - 1) : OuterPass(merged)
  \/ LoopExit

SpecGroup == InitGroup /\ [][NextGroup]_vars

\* The loop is synchronous code: it keeps running.
SpecGroupFair == SpecGroup /\ WF_vars(NextGroup)

\* Every chunk after the first starts at a larger sentence than the one
\* before, at the sentence the previous chunk rejected or, with an overlap
\* configured, at the last sentence the previous chunk took.
GroupProgress ==
  /\ \A k \in 1..(Len(grpStarts) - 1) :
       /\ grpStarts[k + 1] > grpStarts[k]
       /\ grpStarts[k + 1] \in {grpEnds[k] - 1, grpEnds[k]}
       /\ grpOverlap = 0 => grpStarts[k + 1] = grpEnds[k]
  /\ grpPc = "returned" =>
       /\ grpStarts # <<>>
       /\ grpStarts[1] = 0
       /\ grpEnds[Len(grpEnds)] = grpN

\* C39: the grouping loop of the embedding-based splitter terminates for
\* every number of sentences, every overlap and every outcome of the
\* similarity / budget tests: each new chunk starts at a strictly larger
\* sentence index than the previous one, also with an overlap configured (at
\* most one sentence is reused as the seed of the next chunk), no sentence is
\* skipped, and the loop eventually returns.
C39_GroupingTerminates == []GroupProgress /\ <>(grpPc = "returned")

\* The loop has returned, and a chunk of two sentences was followed by a chunk
\* seeded with the second of them.
C39_Witness ==
  /\ grpPc = "returned"
  /\ \E k \in 1..(Len(grpStarts) - 1) :
       /\ grpEnds[k] - grpStarts[k] >= 2
       /\ grpStarts[k + 1] = grpEnds[k] - 1

=========================================================================
